---------------------------- MODULE Spec2Model ----------------------------
(***************************************************************************)
(* A model of paderbox.array.intervall.core: ArrayIntervall, a boolean     *)
(* array stored as a tuple of half-open intervals (start, end), with lazy  *)
(* normalization of the tuple.                                             *)
(*                                                                         *)
(* A Python call is modelled by an operator that returns a record          *)
(*   [self |-> the object after the call, val |-> the value returned,      *)
(*    err |-> "none" or the exception raised]                              *)
(* and by an action that stores that record's parts in the state.          *)
(* None and the one-element shape tuple (n,) are the sequences <<>> and    *)
(* <<n>>; a str is the sequence of its characters.                         *)
(***************************************************************************)
EXTENDS Integers, Sequences, FiniteSets, TLC

VARIABLES ai,      \* the ArrayIntervall under test: [shape, intervals, normalized]
          twin,    \* the same mutations applied to a mask that is never read
          dense,   \* the indices a dense boolean array would hold True at
          ret,     \* the last call on ai: [op, range, arg, val, err]
          m,       \* SpecOr: the three operands of the union calls
          res      \* SpecOr: the outcome of the last union calls

vars == <<ai, twin, dense, ret, m, res>>

-----------------------------------------------------------------------------
(* Bounds of the model *)

\* the largest known shape, and the largest stop of a slice
MaxLen == 3
\* mutations are taken while the unread twin holds at most this many pairs
MaxRaw == 2

None == <<>>

Max(a, b) == IF a >= b THEN a ELSE b
Min(a, b) == IF a <= b THEN a ELSE b

NoErr == "none"

-----------------------------------------------------------------------------
(* _normalize *)

PairLess(p, q) == p[1] < q[1] \/ (p[1] = q[1] /\ p[2] < q[2])

RECURSIVE InsertSorted(_, _)
InsertSorted(s, p) ==
    IF s = <<>> THEN <<p>>
    ELSE IF PairLess(p, Head(s)) THEN <<p>> \o s
    ELSE <<Head(s)>> \o InsertSorted(Tail(s), p)

\* sorted(intervals) that keeps the order given
SortedAsGiven(s) == s

\* sorted(intervals): tuples compare lexicographically
RECURSIVE Sorted(_)
Sorted(s) == IF s = <<>> THEN <<>> ELSE InsertSorted(Sorted(Tail(s)), Head(s))

DeleteAt(l, i) == SubSeq(l, 1, i - 1) \o SubSeq(l, i + 1, Len(l))

\* the inner loop with e = next_e in place of e = max(e, next_e)
RECURSIVE AbsorbLast(_, _, _)
AbsorbLast(l, i, e) ==
    IF i + 1 <= Len(l) /\ l[i + 1][1] <= e
    THEN AbsorbLast(DeleteAt(l, i + 1), i, l[i + 1][2])
    ELSE [l |-> l, e |-> e]

\* the inner loop: while next_s <= e: e = max(e, next_e); del intervals[i+1];
\* the IndexError at the end of the list leaves the loop
RECURSIVE Absorb(_, _, _)
Absorb(l, i, e) ==
    IF i + 1 <= Len(l) /\ l[i + 1][1] <= e
    THEN Absorb(DeleteAt(l, i + 1), i, Max(e, l[i + 1][2]))
    ELSE [l |-> l, e |-> e]

\* the outer loop over range(len(intervals)), i counted from 1, n the length
\* at loop entry; intervals[i] past the shrunken list breaks
RECURSIVE MergeFrom(_, _, _)
MergeFrom(l, i, n) ==
    IF i > n \/ i > Len(l) THEN l
    ELSE LET r == Absorb(l, i, l[i][2])
         IN  MergeFrom([r.l EXCEPT ![i] = <<l[i][1], r.e>>], i + 1, n)

\* _normalize without the test s < e of its first line
NormalizeKeepEmpty(intervals) ==
    MergeFrom(Sorted(intervals), 1, Len(intervals))

\* _normalize without its merge loop
NormalizeNoMerge(intervals) ==
    SelectSeq(Sorted(intervals), LAMBDA p : p[1] < p[2])

Normalize(intervals) ==
    LET f == SelectSeq(Sorted(intervals), LAMBDA p : p[1] < p[2])
    IN  MergeFrom(f, 1, Len(f))

-----------------------------------------------------------------------------
(* The helpers of paderbox.array.intervall.util *)

\* cy_intersection: the intervals clipped to [qs, qe), the empty ones dropped
RECURSIVE Intersection(_, _)
Intersection(q, intervals) ==
    IF intervals = <<>> THEN <<>>
    ELSE LET s == Max(q[1], Head(intervals)[1])
             e == Min(q[2], Head(intervals)[2])
         IN  (IF s < e THEN <<(<<s, e>>)>> ELSE <<>>)
             \o Intersection(q, Tail(intervals))

\* cy_non_intersection: each interval without its part inside [qs, qe)
RECURSIVE NonIntersection(_, _)
NonIntersection(q, intervals) ==
    IF intervals = <<>> THEN <<>>
    ELSE LET s == Head(intervals)[1]
             e == Head(intervals)[2]
         IN  (IF e <= q[1] \/ q[2] <= s THEN <<(<<s, e>>)>>
              ELSE (IF s < q[1] THEN <<(<<s, q[1]>>)>> ELSE <<>>)
                   \o (IF q[2] < e THEN <<(<<q[2], e>>)>> ELSE <<>>))
             \o NonIntersection(q, Tail(intervals))

\* An item is an int or a slice; start, stop and step are None or <<value>>.
IntItem(i) == [kind |-> "int", i |-> i, start |-> None, stop |-> None, step |-> None]
SliceItem(start, stop, step) ==
    [kind |-> "slice", i |-> 0, start |-> start, stop |-> stop, step |-> step]
Slice(a, b) == SliceItem(<<a>>, <<b>>, None)

Resolved(start, stop) == [err |-> NoErr, start |-> start, stop |-> stop]
Unresolved(err) == [err |-> err, start |-> 0, stop |-> 0]

\* cy_parse_item
ParseItem(item, shape) ==
    IF item.kind = "int"
    THEN IF item.i < 0 \/ (shape # None /\ item.i >= shape[1])
         THEN Unresolved("IndexOutOfRange")
         ELSE Resolved(item.i, item.i + 1)
    ELSE IF item.step # None /\ item.step # <<1>>
         THEN Unresolved("UnsupportedStep")
    ELSE IF item.stop = None /\ shape = None
         THEN Unresolved("UnknownDomainLength")
    ELSE Resolved(IF item.start = None THEN 0 ELSE item.start[1],
                  IF item.stop = None THEN shape[1] ELSE item.stop[1])


-----------------------------------------------------------------------------
(* Text: a str is the sequence of its characters *)

Digits == <<"0", "1", "2", "3", "4", "5", "6", "7", "8", "9">>

\* f'{n}' of a non-negative int
RECURSIVE IntToStr(_)
IntToStr(n) ==
    IF n < 10 THEN <<Digits[n + 1]>>
    ELSE IntToStr(n \div 10) \o <<Digits[(n % 10) + 1]>>

\* sep.join(parts)
RECURSIVE Join(_, _)
Join(sep, parts) ==
    IF parts = <<>> THEN <<>>
    ELSE IF Len(parts) = 1 THEN parts[1]
    ELSE parts[1] \o sep \o Join(sep, Tail(parts))

IsDigit(c) == \E d \in 1..10 : Digits[d] = c
DigitVal(c) == (CHOOSE d \in 1..10 : Digits[d] = c) - 1

\* int(chars) of a non-empty run of digits
RECURSIVE StrToInt(_)
StrToInt(cs) ==
    IF Len(cs) = 1 THEN DigitVal(cs[1])
    ELSE 10 * StrToInt(SubSeq(cs, 1, Len(cs) - 1)) + DigitVal(cs[Len(cs)])

IsNumber(cs) == cs # <<>> /\ \A k \in 1..Len(cs) : IsDigit(cs[k])

\* string.split(sep) for a one-character sep
RECURSIVE Split(_, _)
Split(cs, sep) ==
    IF \A k \in 1..Len(cs) : cs[k] # sep THEN <<cs>>
    ELSE LET k == CHOOSE j \in 1..Len(cs) :
                      cs[j] = sep /\ \A h \in 1..(j - 1) : cs[h] # sep
         IN  <<SubSeq(cs, 1, k - 1)>> \o Split(SubSeq(cs, k + 1, Len(cs)), sep)

Contains(cs, c) == \E k \in 1..Len(cs) : cs[k] = c

\* one start:end token, blanks ignored
ParseToken(tok) ==
    LET t == SelectSeq(tok, LAMBDA c : c # " ")
        parts == Split(t, ":")
    IN  IF Len(parts) = 2 /\ IsNumber(parts[1]) /\ IsNumber(parts[2])
        THEN [err |-> NoErr, pair |-> <<StrToInt(parts[1]), StrToInt(parts[2])>>]
        ELSE [err |-> "ParseError", pair |-> <<0, 0>>]

RECURSIVE ParseTokens(_)
ParseTokens(toks) ==
    IF toks = <<>> THEN [err |-> NoErr, intervals |-> <<>>, token |-> <<>>]
    ELSE LET p == ParseToken(Head(toks))
             rest == ParseTokens(Tail(toks))
         IN  IF p.err # NoErr
             THEN [err |-> p.err, intervals |-> <<>>, token |-> Head(toks)]
             ELSE IF rest.err # NoErr THEN rest
             ELSE [err |-> NoErr, intervals |-> <<p.pair>> \o rest.intervals,
                   token |-> <<>>]

\* cy_str_to_intervalls: a comma-separated list of start:end tokens; the empty
\* token after a trailing comma is not a token
StrToIntervals(string) ==
    LET toks == Split(string, ",")
        last == SelectSeq(toks[Len(toks)], LAMBDA c : c # " ")
    IN  ParseTokens(IF last = <<>> THEN SubSeq(toks, 1, Len(toks) - 1) ELSE toks)

-----------------------------------------------------------------------------
(* ArrayIntervall *)

Call(self, val, err) == [self |-> self, val |-> val, err |-> err]

\* zeros(shape): no instance attribute but shape, so the class attributes
\* _intervals = () and _intervals_normalized = True are what is read
Zeros(shape) == [shape |-> shape, intervals |-> <<>>, normalized |-> TRUE]

\* the intervals setter without self._intervals_normalized = False
SetIntervalsKeepFlag(self, item) == [self EXCEPT !.intervals = item]

\* the intervals setter storing the sorted and merged pairs
SetIntervalsMerged(self, item) ==
    [self EXCEPT !.normalized = FALSE, !.intervals = Normalize(item)]

\* the intervals setter
SetIntervals(self, item) == [self EXCEPT !.normalized = FALSE, !.intervals = item]

\* normalized_intervals that sets the flag and returns the normalized tuple
\* without storing it
NormalizedIntervalsUnstored(self) ==
    IF ~self.normalized
    THEN Call([self EXCEPT !.normalized = TRUE], Normalize(self.intervals), NoErr)
    ELSE Call(self, self.intervals, NoErr)

\* normalized_intervals that stores the sorted pairs without merging them
NormalizedIntervalsSorted(self) ==
    IF ~self.normalized
    THEN LET n == NormalizeNoMerge(self.intervals)
         IN  Call([self EXCEPT !.intervals = n, !.normalized = TRUE], n, NoErr)
    ELSE Call(self, self.intervals, NoErr)

\* the normalized_intervals property: normalizes in place, once
NormalizedIntervals(self) ==
    IF ~self.normalized
    THEN LET n == Normalize(self.intervals)
         IN  Call([self EXCEPT !.intervals = n, !.normalized = TRUE], n, NoErr)
    ELSE Call(self, self.intervals, NoErr)

\* ' '.join(i_str): the comma left out
FormatIntervalsBlank(intervals) ==
    Join(<<" ">>,
         [k \in 1..Len(intervals) |->
             IntToStr(intervals[k][1]) \o <<":">> \o IntToStr(intervals[k][2])])

\* ', '.join(i_str) of i_str = [f'{start}:{end}', ...]
FormatIntervals(intervals) ==
    Join(<<",", " ">>,
         [k \in 1..Len(intervals) |->
             IntToStr(intervals[k][1]) \o <<":">> \o IntToStr(intervals[k][2])])

\* _intervals_as_str over self.intervals in place of self.normalized_intervals
IntervalsAsStrRaw(self) == Call(self, FormatIntervals(self.intervals), NoErr)

\* the _intervals_as_str property
IntervalsAsStr(self) ==
    LET n == NormalizedIntervals(self)
    IN  Call(n.self, FormatIntervals(n.val), NoErr)

\* __len__ that answers 0 for the shape None
LenOfNone(self) ==
    IF self.shape = None THEN Call(self, 0, NoErr)
    ELSE Call(self, self.shape[1], NoErr)

\* __len__: self.shape[0]; None[0] raises TypeError
LenOf(self) ==
    IF self.shape = None THEN Call(self, 0, "TypeError")
    ELSE Call(self, self.shape[1], NoErr)

\* add_intervals_from_str
AddIntervalsFromStr(self, string) ==
    LET p == StrToIntervals(string)
    IN  IF p.err # NoErr THEN Call(self, p.token, p.err)
        ELSE Call(SetIntervals(self, self.intervals \o p.intervals), <<>>, NoErr)

\* ArrayIntervall_from_str that passes over the parser's error and returns
\* the mask as it is
FromStrSwallow(string, shape) ==
    LET ai0 == Zeros(shape)
    IN  IF string = <<>> THEN Call(ai0, <<>>, NoErr)
        ELSE LET s == IF ~Contains(string, ",") THEN string \o <<",">> ELSE string
                 a == AddIntervalsFromStr(ai0, s)
             IN  IF a.err # NoErr THEN Call(ai0, <<>>, NoErr) ELSE a

\* ArrayIntervall_from_str without its test for the empty string
FromStrNoEmpty(string, shape) ==
    LET ai0 == Zeros(shape)
        s == IF ~Contains(string, ",") THEN string \o <<",">> ELSE string
        a == AddIntervalsFromStr(ai0, s)
    IN  IF a.err # NoErr THEN Call(ai0, <<s, a.err, a.val>>, "Exception") ELSE a

\* ArrayIntervall_from_str: on an error of the parser it raises
\* Exception(string) from e; val is the string, and e's type and token
FromStr(string, shape) ==
    LET ai0 == Zeros(shape)
    IN  IF string = <<>> THEN Call(ai0, <<>>, NoErr)
        ELSE LET s == IF ~Contains(string, ",") THEN string \o <<",">> ELSE string
                 a == AddIntervalsFromStr(ai0, s)
             IN  IF a.err # NoErr THEN Call(ai0, <<s, a.err, a.val>>, "Exception") ELSE a

\* add_intervals as the loop of its docstring, for item in intervals:
\* self[item] = 1, which stores the items before the one that does not resolve
RECURSIVE AddIntervalsLoop(_, _)
AddIntervalsLoop(self, items) ==
    IF items = <<>> THEN Call(self, <<>>, NoErr)
    ELSE LET r == ParseItem(Head(items), self.shape)
         IN  IF r.err # NoErr THEN Call(self, <<>>, r.err)
             ELSE AddIntervalsLoop(
                      SetIntervals(self, Append(self.intervals, <<r.start, r.stop>>)),
                      Tail(items))

\* add_intervals that puts the resolved pairs ahead of self.intervals
AddIntervalsAhead(self, items) ==
    LET parsed == [k \in 1..Len(items) |-> ParseItem(items[k], self.shape)]
        bad == {k \in 1..Len(items) : parsed[k].err # NoErr}
    IN  IF bad # {}
        THEN Call(self, <<>>, parsed[CHOOSE k \in bad : \A j \in bad : k <= j].err)
        ELSE Call(SetIntervals(self,
                      [k \in 1..Len(items) |-> <<parsed[k].start, parsed[k].stop>>]
                          \o self.intervals),
                  <<>>, NoErr)

\* add_intervals: every item is resolved before the setter runs
AddIntervals(self, items) ==
    LET parsed == [k \in 1..Len(items) |-> ParseItem(items[k], self.shape)]
        bad == {k \in 1..Len(items) : parsed[k].err # NoErr}
    IN  IF bad # {}
        THEN Call(self, <<>>, parsed[CHOOSE k \in bad : \A j \in bad : k <= j].err)
        ELSE Call(SetIntervals(self, self.intervals
                      \o [k \in 1..Len(items) |-> <<parsed[k].start, parsed[k].stop>>]),
                  <<>>, NoErr)


\* A value assigned by __setitem__: a scalar, an array-like (tuple, list,
\* ndarray) with the dtype np.asarray gives it, or any other object.
Scalar(v) == [kind |-> "scalar", v |-> v, dtype |-> "", data |-> <<>>]
Array(dtype, data) == [kind |-> "array", v |-> 0, dtype |-> dtype, data |-> data]
Other == [kind |-> "other", v |-> 0, dtype |-> "", data |-> <<>>]

\* where(diff > 0) + 1: the indices (counted from 0) at which a run of True starts
Rising(data) ==
    LET idx == [k \in 1..(Len(data) - 1) |-> k]
    IN  SelectSeq(idx, LAMBDA k : ~data[k] /\ data[k + 1])

\* where(diff < 0) + 1: the indices (counted from 0) just after a run of True
Falling(data) ==
    LET idx == [k \in 1..(Len(data) - 1) |-> k]
    IN  SelectSeq(idx, LAMBDA k : data[k] /\ ~data[k + 1])

\* self[start:stop] = 1 for each pair of zip(rising, falling)
RECURSIVE SetRuns(_, _, _)
SetRuns(self, rising, falling) ==
    IF rising = <<>> \/ falling = <<>> THEN Call(self, <<>>, NoErr)
    ELSE LET r == ParseItem(Slice(Head(rising), Head(falling)), self.shape)
         IN  IF r.err # NoErr THEN Call(self, <<>>, r.err)
             ELSE SetRuns(SetIntervals(self, Append(self.intervals, <<r.start, r.stop>>)),
                          Tail(rising), Tail(falling))

\* __init__(array)
FromDense(array) ==
    IF array.dtype # "bool" THEN Call(Zeros(None), <<>>, "AssertionError")
    ELSE LET data == array.data
             n == Len(data)
         IN  IF n = 0
             THEN \* array[0] of an empty array
                  Call(Zeros(None), <<>>, "IndexError")
             ELSE LET rising == (IF data[1] THEN <<0>> ELSE <<>>) \o Rising(data)
                      falling == Falling(data) \o (IF data[n] THEN <<n>> ELSE <<>>)
                  IN  SetRuns(Zeros(<<n>>), rising, falling)

\* the runs of the pattern left at their offsets within the pattern
ShiftNone(intervals, by) == intervals

\* [(s+start, e+start) for s, e in ai.intervals]
Shift(intervals, by) == [k \in 1..Len(intervals) |->
                            <<intervals[k][1] + by, intervals[k][2] + by>>]

\* __setitem__ that takes every scalar but 0 as 1
SetItemTruthy(self, item, value) ==
    LET r == ParseItem(item, self.shape)
        q == <<r.start, r.stop>>
    IN  IF r.err # NoErr THEN Call(self, <<>>, r.err)
        ELSE IF value.kind = "scalar"
        THEN IF value.v # 0
             THEN Call(SetIntervals(self, Append(self.intervals, q)), <<>>, NoErr)
             ELSE Call(SetIntervals(self, NonIntersection(q, self.intervals)),
                       <<>>, NoErr)
        ELSE IF value.kind = "array"
        THEN IF Len(value.data) # r.stop - r.start
             THEN Call(self, <<>>, "AssertionError")
             ELSE LET a == FromDense(value)
                  IN  IF a.err # NoErr THEN Call(self, <<>>, a.err)
                      ELSE Call(SetIntervals(self,
                                    NonIntersection(q, self.intervals)
                                        \o Shift(a.self.intervals, r.start)),
                                <<>>, NoErr)
        ELSE Call(self, <<>>, "NotImplementedError")

\* __setitem__ that appends (start, stop + 1) for the value 1
SetItemInclusive(self, item, value) ==
    LET r == ParseItem(item, self.shape)
        q == <<r.start, r.stop>>
    IN  IF r.err # NoErr THEN Call(self, <<>>, r.err)
        ELSE IF value.kind = "scalar"
        THEN IF value.v = 1
             THEN Call(SetIntervals(self, Append(self.intervals, <<r.start, r.stop + 1>>)),
                       <<>>, NoErr)
             ELSE IF value.v = 0
             THEN Call(SetIntervals(self, NonIntersection(q, self.intervals)),
                       <<>>, NoErr)
             ELSE Call(self, <<value.v>>, "ValueError")
        ELSE IF value.kind = "array"
        THEN IF Len(value.data) # r.stop - r.start
             THEN Call(self, <<>>, "AssertionError")
             ELSE LET a == FromDense(value)
                  IN  IF a.err # NoErr THEN Call(self, <<>>, a.err)
                      ELSE Call(SetIntervals(self,
                                    NonIntersection(q, self.intervals)
                                        \o Shift(a.self.intervals, r.start)),
                                <<>>, NoErr)
        ELSE Call(self, <<>>, "NotImplementedError")

\* __setitem__ whose value == 0 branch drops every pair the range touches
SetItemDropTouched(self, item, value) ==
    LET r == ParseItem(item, self.shape)
        q == <<r.start, r.stop>>
    IN  IF r.err # NoErr THEN Call(self, <<>>, r.err)
        ELSE IF value.kind = "scalar"
        THEN IF value.v = 1
             THEN Call(SetIntervals(self, Append(self.intervals, q)), <<>>, NoErr)
             ELSE IF value.v = 0
             THEN Call(SetIntervals(self,
                           SelectSeq(self.intervals,
                                     LAMBDA i : i[2] <= q[1] \/ q[2] <= i[1])),
                       <<>>, NoErr)
             ELSE Call(self, <<value.v>>, "ValueError")
        ELSE IF value.kind = "array"
        THEN IF Len(value.data) # r.stop - r.start
             THEN Call(self, <<>>, "AssertionError")
             ELSE LET a == FromDense(value)
                  IN  IF a.err # NoErr THEN Call(self, <<>>, a.err)
                      ELSE Call(SetIntervals(self,
                                    NonIntersection(q, self.intervals)
                                        \o Shift(a.self.intervals, r.start)),
                                <<>>, NoErr)
        ELSE Call(self, <<>>, "NotImplementedError")

\* __setitem__ whose value == 0 branch keeps cy_intersection's pairs
SetItemKeepInside(self, item, value) ==
    LET r == ParseItem(item, self.shape)
        q == <<r.start, r.stop>>
    IN  IF r.err # NoErr THEN Call(self, <<>>, r.err)
        ELSE IF value.kind = "scalar"
        THEN IF value.v = 1
             THEN Call(SetIntervals(self, Append(self.intervals, q)), <<>>, NoErr)
             ELSE IF value.v = 0
             THEN Call(SetIntervals(self, Intersection(q, self.intervals)),
                       <<>>, NoErr)
             ELSE Call(self, <<value.v>>, "ValueError")
        ELSE IF value.kind = "array"
        THEN IF Len(value.data) # r.stop - r.start
             THEN Call(self, <<>>, "AssertionError")
             ELSE LET a == FromDense(value)
                  IN  IF a.err # NoErr THEN Call(self, <<>>, a.err)
                      ELSE Call(SetIntervals(self,
                                    NonIntersection(q, self.intervals)
                                        \o Shift(a.self.intervals, r.start)),
                                <<>>, NoErr)
        ELSE Call(self, <<>>, "NotImplementedError")

\* __setitem__(item, value)
SetItem(self, item, value) ==
    LET r == ParseItem(item, self.shape)
        q == <<r.start, r.stop>>
    IN  IF r.err # NoErr THEN Call(self, <<>>, r.err)
        ELSE IF value.kind = "scalar"
        THEN IF value.v = 1
             THEN Call(SetIntervals(self, Append(self.intervals, q)), <<>>, NoErr)
             ELSE IF value.v = 0
             THEN Call(SetIntervals(self, NonIntersection(q, self.intervals)),
                       <<>>, NoErr)
             ELSE Call(self, <<value.v>>, "ValueError")
        ELSE IF value.kind = "array"
        THEN IF Len(value.data) # r.stop - r.start
             THEN Call(self, <<>>, "AssertionError")
             ELSE LET a == FromDense(value)
                  IN  IF a.err # NoErr THEN Call(self, <<>>, a.err)
                      ELSE Call(SetIntervals(self,
                                    NonIntersection(q, self.intervals)
                                        \o Shift(a.self.intervals, r.start)),
                                <<>>, NoErr)
        ELSE Call(self, <<>>, "NotImplementedError")

\* __getitem__ with arr[i_start:i_end] = True in place of
\* arr[i_start - start:i_end - start] = True
GetItemNoOffset(self, item) ==
    LET r == ParseItem(item, self.shape)
    IN  IF r.err # NoErr THEN Call(self, <<>>, r.err)
        ELSE LET n == NormalizedIntervals(self)
                 intervals == Intersection(<<r.start, r.stop>>, n.val)
                 arr == [k \in 1..(r.stop - r.start) |->
                            \E j \in 1..Len(intervals) :
                                /\ intervals[j][1] <= k - 1
                                /\ k - 1 < intervals[j][2]]
             IN  Call(n.self, arr, NoErr)

\* __getitem__ that normalizes a copy and stores nothing
GetItemPeek(self, item) ==
    LET r == ParseItem(item, self.shape)
    IN  IF r.err # NoErr THEN Call(self, <<>>, r.err)
        ELSE LET intervals == Intersection(<<r.start, r.stop>>, Normalize(self.intervals))
                 arr == [k \in 1..(r.stop - r.start) |->
                            \E j \in 1..Len(intervals) :
                                /\ intervals[j][1] - r.start <= k - 1
                                /\ k - 1 < intervals[j][2] - r.start]
             IN  Call(self, arr, NoErr)

\* __getitem__ that reads normalized_intervals before it resolves the item
GetItemEager(self, item) ==
    LET n == NormalizedIntervals(self)
        r == ParseItem(item, self.shape)
    IN  IF r.err # NoErr THEN Call(n.self, <<>>, r.err)
        ELSE LET intervals == Intersection(<<r.start, r.stop>>, n.val)
                 arr == [k \in 1..(r.stop - r.start) |->
                            \E j \in 1..Len(intervals) :
                                /\ intervals[j][1] - r.start <= k - 1
                                /\ k - 1 < intervals[j][2] - r.start]
             IN  Call(n.self, arr, NoErr)

\* __getitem__(item): the dense array over the resolved range
GetItem(self, item) ==
    LET r == ParseItem(item, self.shape)
    IN  IF r.err # NoErr THEN Call(self, <<>>, r.err)
        ELSE LET n == NormalizedIntervals(self)
                 intervals == Intersection(<<r.start, r.stop>>, n.val)
                 arr == [k \in 1..(r.stop - r.start) |->
                            \E j \in 1..Len(intervals) :
                                /\ intervals[j][1] - r.start <= k - 1
                                /\ k - 1 < intervals[j][2] - r.start]
             IN  Call(n.self, arr, NoErr)

\* __repr__: the text of the intervals and the shape
Repr(self) ==
    LET s == IntervalsAsStr(self)
    IN  Call(s.self, <<s.val, self.shape>>, NoErr)

\* __reduce__: (self.from_str, (self._intervals_as_str, self.shape[-1])); the
\* text is read before the shape, and None[-1] raises TypeError
Reduce(self) ==
    LET s == IntervalsAsStr(self)
    IN  IF self.shape = None THEN Call(s.self, <<>>, "TypeError")
        ELSE Call(s.self, <<s.val, self.shape[Len(self.shape)]>>, NoErr)

\* __or__ that returns self's intervals only
OrLeft(self, other) ==
    IF other.shape # self.shape
    THEN [self |-> self, other |-> other, val |-> Zeros(None), err |-> "AssertionError"]
    ELSE [self |-> self, other |-> other,
          val |-> SetIntervals(Zeros(self.shape), self.intervals),
          err |-> NoErr]

\* __or__ that reads normalized_intervals of both operands instead of intervals
OrNormalized(self, other) ==
    IF other.shape # self.shape
    THEN [self |-> self, other |-> other, val |-> Zeros(None), err |-> "AssertionError"]
    ELSE LET a == NormalizedIntervals(self)
             b == NormalizedIntervals(other)
         IN  [self |-> a.self, other |-> b.self,
              val |-> SetIntervals(Zeros(self.shape), a.val \o b.val),
              err |-> NoErr]

\* __or__ without its assert on the shapes
OrNoAssert(self, other) ==
    [self |-> self, other |-> other,
     val |-> SetIntervals(Zeros(self.shape), self.intervals \o other.intervals),
     err |-> NoErr]

\* __or__(other): [self, other, val, err], both operands as the call leaves them
Or(self, other) ==
    IF other.shape # self.shape
    THEN [self |-> self, other |-> other, val |-> Zeros(None), err |-> "AssertionError"]
    ELSE [self |-> self, other |-> other,
          val |-> SetIntervals(Zeros(self.shape), self.intervals \o other.intervals),
          err |-> NoErr]


-----------------------------------------------------------------------------
(* The inputs of the calls *)

Shapes == {None} \cup {<<n>> : n \in 0..MaxLen}

\* the largest index a call is given for a mask of this shape
Top(shape) == IF shape = None THEN MaxLen ELSE shape[1]

\* a:b with a < b, and the empty ranges 0:0 and top:top
Ranges(shape) ==
    {<<a, b>> \in (0..Top(shape)) \X (0..Top(shape)) : a < b}
    \cup {<<0, 0>>, <<Top(shape), Top(shape)>>}

\* a:b for every range, [:], [0:top:1], [0:top:2], and the integers -1, 0, top
Items(shape) ==
    {Slice(q[1], q[2]) : q \in Ranges(shape)}
    \cup {SliceItem(None, None, None),
          SliceItem(<<0>>, <<Top(shape)>>, <<1>>),
          SliceItem(<<0>>, <<Top(shape)>>, <<2>>)}
    \cup {IntItem(i) : i \in {-1, 0, Top(shape)}}

BoolSeqs(n) == [1..n -> BOOLEAN]

\* the values that do not fit a range of length n: 2, an object that is no
\* array, an int array, a bool array one longer, and the empty list
\* (np.asarray([]) is a float array)
BadValues(n) ==
    {Scalar(2), Other,
     Array("int", [k \in 1..n |-> TRUE]),
     Array("bool", [k \in 1..(n + 1) |-> TRUE]),
     Array("float", <<>>)}

\* the values assigned to item, which resolves to a range of length n: 0, 1
\* and every bool array of length n; the values that do not fit are tried on
\* the slice 0:top
Values(item, shape, n) ==
    {Scalar(0), Scalar(1)}
    \cup {Array("bool", d) : d \in BoolSeqs(n)}
    \cup (IF item = Slice(0, Top(shape)) THEN BadValues(n) ELSE {})

\* the lists of items add_intervals is given
AddItemLists(shape) ==
    {<<Slice(0, Top(shape))>>, <<IntItem(0), Slice(0, 0)>>, <<IntItem(-1)>>,
     <<Slice(0, 1), SliceItem(<<0>>, None, None)>>,
     <<Slice(0, 1), SliceItem(<<0>>, <<1>>, <<2>>)>>}
    \cup {<<Slice(q[1], q[2]), Slice(0, 1)>> : q \in Ranges(shape)}

\* the interval lists whose texts add_intervals_from_str and from_str are given
StringLists(shape) ==
    {<<q>> : q \in {<<0, 1>>, <<0, Top(shape)>>, <<10, 12>>}}
    \cup {<<q, <<0, 1>> >> : q \in Ranges(shape)}

\* those texts, each also with a trailing comma and without its blanks, the
\* empty string, and three strings with a malformed token
Strings(shape) ==
    {FormatIntervals(l) : l \in StringLists(shape)}
    \cup {FormatIntervals(l) \o <<",">> : l \in StringLists(shape)}
    \cup {SelectSeq(FormatIntervals(l), LAMBDA c : c # " ") : l \in StringLists(shape)}
    \cup {<<>>, <<"1", ":">>, <<"x">>, <<"0", ":", "1", ",", "1", "-", "2">>}

-----------------------------------------------------------------------------
(* The dense boolean array the mask stands for, as the set of its True indices *)

RangeSet(a, b) == a..(b - 1)

TrueAt(data) == {k - 1 : k \in {j \in 1..Len(data) : data[j]}}

\* array[a:b] = value of a numpy bool array
DenseSet(d, a, b, value) ==
    IF value.kind = "scalar"
    THEN IF value.v = 1 THEN d \cup RangeSet(a, b) ELSE d \ RangeSet(a, b)
    ELSE (d \ RangeSet(a, b)) \cup {a + k : k \in TrueAt(value.data)}

\* array[a:b]
DenseGet(d, a, b) == [k \in 1..(b - a) |-> (a + k - 1) \in d]

RangesOf(intervals) ==
    {RangeSet(intervals[k][1], intervals[k][2]) : k \in 1..Len(intervals)}

\* the indices some stored interval holds
Covered(intervals) == UNION RangesOf(intervals)

-----------------------------------------------------------------------------
(* Spec: one mask and the calls on it.  ret is the last call: its name, the   *)
(* range its item resolved to, what is kept of its argument, the value it     *)
(* returned and the exception it raised.  The caller either uses what the     *)
(* call returned in its next call (DoSetGot, DoSetAgain, DoFromText) or lets   *)
(* go of it (Discard) and makes any call.                                     *)

Ret(op, range, arg, val, err) ==
    [op |-> op, range |-> range, arg |-> arg, val |-> val, err |-> err]

RangeOf(item, shape) ==
    LET r == ParseItem(item, shape)
    IN  IF r.err = NoErr THEN <<r.start, r.stop>> ELSE <<>>

\* what ret keeps of an assigned value
ValueTag(value) ==
    IF value.kind = "scalar" THEN <<"scalar", value.v>> ELSE <<value.kind, 0>>

Constructors == {"zeros", "from_dense", "from_str"}

\* ai is bound to a mask: the last constructor call did not raise
Alive == ret.op # "start" /\ ~(ret.op \in Constructors /\ ret.err # NoErr)

\* ai is bound and the caller holds nothing of an earlier call on it
Ready == Alive /\ ret.op \in Constructors \cup {"idle"}

\* the caller lets go of what the last call returned or raised
Discard ==
    /\ Alive
    /\ ret.op \notin Constructors \cup {"idle"}
    /\ ret' = Ret("idle", <<>>, <<>>, <<>>, NoErr)
    /\ UNCHANGED <<ai, twin, dense, m, res>>

NoUnion == [kind |-> "none"]

Init ==
    /\ ai = Zeros(None)
    /\ twin = ai
    /\ dense = {}
    /\ ret = Ret("start", <<>>, <<>>, <<>>, NoErr)
    /\ m = <<>>
    /\ res = NoUnion

\* ai = zeros(shape)
DoZeros ==
    /\ ~Alive
    /\ \E shape \in Shapes :
         /\ ai' = Zeros(shape)
         /\ dense' = {}
         /\ ret' = Ret("zeros", <<>>, <<>>, <<>>, NoErr)
         /\ UNCHANGED <<twin, m, res>>

\* ai = ArrayIntervall(array)
DoFromDense ==
    /\ ~Alive
    /\ \E n \in 0..MaxLen :
         \E array \in {Array("bool", d) : d \in BoolSeqs(n)}
                      \cup {Array("int", <<TRUE>>), Array("float", <<>>)} :
           \E c \in {FromDense(array)} :
               /\ ai' = IF c.err = NoErr THEN c.self ELSE ai
               /\ dense' = IF c.err = NoErr THEN TrueAt(array.data) ELSE dense
               /\ ret' = Ret("from_dense", <<>>, array, <<>>, c.err)
               /\ UNCHANGED <<twin, m, res>>

\* ai = ArrayIntervall.from_str(string, shape)
DoFromStr ==
    /\ ~Alive
    /\ \E shape \in Shapes :
         \E string \in Strings(shape) :
           \E c \in {FromStr(string, shape)} :
             /\ ai' = IF c.err = NoErr THEN c.self ELSE ai
             /\ dense' = IF c.err = NoErr
                         THEN (IF string = <<>> THEN {}
                               ELSE Covered(StrToIntervals(string).intervals))
                         ELSE dense
             /\ ret' = Ret("from_str", <<>>, string, c.val, c.err)
             /\ UNCHANGED <<twin, m, res>>

\* ai = ArrayIntervall.from_str(text, shape) for the text ai._intervals_as_str
\* just returned and ai's own domain length (zeros turns the length n into
\* the shape (n,)); a failed construction leaves ai bound as it was
DoFromText ==
    /\ Alive
    /\ ret.op = "to_text" /\ ret.err = NoErr
    /\ \E c \in {FromStr(ret.val, ai.shape)} :
         /\ ai' = IF c.err = NoErr THEN c.self ELSE ai
         /\ ret' = Ret("from_text", <<>>, ret.val, c.val, c.err)
         /\ UNCHANGED <<twin, dense, m, res>>

\* ai[item] = value
DoSet ==
    /\ Ready
    /\ \E item \in Items(ai.shape) :
         \E q \in {RangeOf(item, ai.shape)} :
             \E value \in Values(item, ai.shape, IF q = <<>> THEN 0 ELSE q[2] - q[1]) :
               \E c \in {SetItem(ai, item, value)} :
                   /\ Len(c.self.intervals) <= MaxRaw
                   /\ ai' = c.self
                   /\ dense' = IF c.err = NoErr THEN DenseSet(dense, q[1], q[2], value)
                               ELSE dense
                   /\ ret' = Ret("set", IF value = Scalar(1) THEN q ELSE <<>>,
                                  IF q = <<>> THEN <<>> ELSE ValueTag(value),
                                  <<>>, c.err)
                   /\ UNCHANGED <<twin, m, res>>

\* ai[r] = got, for the array got = ai[r] the last call returned
DoSetGot ==
    /\ Alive
    /\ ret.op = "get" /\ ret.err = NoErr
    /\ \E value \in {Array("bool", ret.val)} :
         \E c \in {SetItem(ai, Slice(ret.range[1], ret.range[2]), value)} :
           /\ ai' = c.self
           /\ dense' = IF c.err = NoErr
                       THEN DenseSet(dense, ret.range[1], ret.range[2], value)
                       ELSE dense
           /\ ret' = Ret("set_got", ret.range, ValueTag(value), <<>>, c.err)
           /\ UNCHANGED <<twin, m, res>>

\* ai[r] = 1 once more, after ai[r] = 1
DoSetAgain ==
    /\ Alive
    /\ ret.op = "set" /\ ret.arg = ValueTag(Scalar(1)) /\ ret.err = NoErr
    /\ \E c \in {SetItem(ai, Slice(ret.range[1], ret.range[2]), Scalar(1))} :
         /\ ai' = c.self
         /\ dense' = IF c.err = NoErr
                     THEN DenseSet(dense, ret.range[1], ret.range[2], Scalar(1))
                     ELSE dense
         /\ ret' = Ret("set_again", ret.range, ValueTag(Scalar(1)), <<>>, c.err)
         /\ UNCHANGED <<twin, m, res>>

\* ai[item]
DoGet ==
    /\ Ready
    /\ \E item \in Items(ai.shape) :
         \E c \in {GetItem(ai, item)} :
             /\ ai' = c.self
             /\ ret' = Ret("get", RangeOf(item, ai.shape), <<>>, c.val, c.err)
             /\ UNCHANGED <<twin, dense, m, res>>

\* ai._intervals_as_str
DoToText ==
    /\ Ready
    /\ \E c \in {IntervalsAsStr(ai)} :
           /\ ai' = c.self
           /\ ret' = Ret("to_text", <<>>, <<>>, c.val, c.err)
           /\ UNCHANGED <<twin, dense, m, res>>

\* repr(ai)
DoRepr ==
    /\ Ready
    /\ \E c \in {Repr(ai)} :
           /\ ai' = c.self
           /\ ret' = Ret("repr", <<>>, <<>>, c.val, c.err)
           /\ UNCHANGED <<twin, dense, m, res>>

\* len(ai)
DoLen ==
    /\ Ready
    /\ \E c \in {LenOf(ai)} :
           /\ ai' = c.self
           /\ ret' = Ret("len", <<>>, <<>>, IF c.err = NoErr THEN <<c.val>> ELSE <<>>, c.err)
           /\ UNCHANGED <<twin, dense, m, res>>

\* ai.add_intervals(items)
DoAddIntervals ==
    /\ Ready
    /\ \E items \in AddItemLists(ai.shape) :
         \E c \in {AddIntervals(ai, items)} :
             /\ Len(c.self.intervals) <= MaxRaw
             /\ ai' = c.self
             /\ dense' = IF c.err = NoErr
                         THEN dense \cup
                              UNION {RangeSet(RangeOf(items[k], ai.shape)[1],
                                              RangeOf(items[k], ai.shape)[2]) :
                                     k \in 1..Len(items)}
                         ELSE dense
             /\ ret' = Ret("add_intervals", <<>>, <<>>, <<>>, c.err)
             /\ UNCHANGED <<twin, m, res>>

\* ai.add_intervals_from_str(string)
DoAddIntervalsFromStr ==
    /\ Ready
    /\ \E string \in Strings(ai.shape) :
         \E c \in {AddIntervalsFromStr(ai, string)} :
             /\ Len(c.self.intervals) <= MaxRaw
             /\ ai' = c.self
             /\ dense' = IF c.err = NoErr
                         THEN dense \cup Covered(StrToIntervals(string).intervals)
                         ELSE dense
             /\ ret' = Ret("add_intervals_from_str", <<>>, <<>>, c.val, c.err)
             /\ UNCHANGED <<twin, m, res>>

\* the masks ai is united with: one interval set in a mask of ai's shape, of
\* no known shape, or of a shape one longer
Others(shape) ==
    {SetIntervals(Zeros(s), <<(<<0, 1>>)>>) :
        s \in {shape, None, <<Top(shape) + 1>>}}

\* ai | other
DoOr ==
    /\ Ready
    /\ \E other \in Others(ai.shape) :
         \E c \in {Or(ai, other)} :
           /\ ai' = c.self
           /\ ret' = Ret("or", <<>>, <<>>, IF c.err = NoErr THEN c.val ELSE <<>>, c.err)
           /\ UNCHANGED <<twin, dense, m, res>>

Next ==
    \/ DoZeros
    \/ DoFromDense
    \/ DoFromStr
    \/ DoFromText
    \/ DoSet
    \/ DoSetGot
    \/ DoSetAgain
    \/ DoGet
    \/ DoToText
    \/ DoRepr
    \/ DoLen
    \/ DoAddIntervals
    \/ DoAddIntervalsFromStr
    \/ DoOr
    \/ Discard

Spec == Init /\ [][Next]_vars

-----------------------------------------------------------------------------
(* SpecTwin: ai and twin get the same mutating calls; only ai is ever read.   *)

InitTwin ==
    /\ ai \in {Zeros(None), Zeros(<<MaxLen>>)}
    /\ twin = ai
    /\ dense = {}
    /\ ret = Ret("idle", <<>>, <<>>, <<>>, NoErr)
    /\ m = <<>>
    /\ res = NoUnion

\* the values of a set: the scalars 0 and 1, and bool arrays of one or two
\* elements
TwinValues(item, shape, n) ==
    {v \in Values(item, shape, n) :
        \/ v.kind = "scalar"
        \/ v.kind = "array" /\ v.dtype = "bool" /\ Len(v.data) \in 1..2}

\* ai[item] = value and twin[item] = value
TwinSet ==
    \E item \in Items(ai.shape) :
      \E q \in {RangeOf(item, ai.shape)} :
        \E value \in TwinValues(item, ai.shape, IF q = <<>> THEN 0 ELSE q[2] - q[1]) :
          \E c \in {SetItem(twin, item, value)} :
            /\ c.err = NoErr
            /\ Len(c.self.intervals) <= MaxRaw
            /\ twin' = c.self
            /\ ai' = SetItem(ai, item, value).self
            /\ UNCHANGED <<dense, ret, m, res>>

\* add_intervals(items) on both
TwinAddIntervals ==
    \E items \in AddItemLists(ai.shape) :
      \E c \in {AddIntervals(twin, items)} :
        /\ c.err = NoErr
        /\ Len(c.self.intervals) <= MaxRaw
        /\ twin' = c.self
        /\ ai' = AddIntervals(ai, items).self
        /\ UNCHANGED <<dense, ret, m, res>>

\* add_intervals_from_str(string) on both
TwinAddIntervalsFromStr ==
    \E string \in Strings(ai.shape) :
      \E c \in {AddIntervalsFromStr(twin, string)} :
        /\ c.err = NoErr
        /\ Len(c.self.intervals) <= MaxRaw
        /\ twin' = c.self
        /\ ai' = AddIntervalsFromStr(ai, string).self
        /\ UNCHANGED <<dense, ret, m, res>>

\* ai = ai | other and twin = twin | other
TwinOr ==
    \E other \in Others(ai.shape) :
      \E c \in {Or(twin, other)} :
        /\ c.err = NoErr
        /\ Len(c.val.intervals) <= MaxRaw
        /\ twin' = c.val
        /\ ai' = Or(ai, other).val
        /\ UNCHANGED <<dense, ret, m, res>>

\* ai[item], read and dropped
TwinGet ==
    \E item \in Items(ai.shape) :
      /\ ai' = GetItem(ai, item).self
      /\ UNCHANGED <<twin, dense, ret, m, res>>

\* ai._intervals_as_str, read and dropped
TwinToText ==
    /\ ai' = IntervalsAsStr(ai).self
    /\ UNCHANGED <<twin, dense, ret, m, res>>

\* repr(ai), read and dropped
TwinRepr ==
    /\ ai' = Repr(ai).self
    /\ UNCHANGED <<twin, dense, ret, m, res>>

NextTwin ==
    \/ TwinSet
    \/ TwinAddIntervals
    \/ TwinAddIntervalsFromStr
    \/ TwinOr
    \/ TwinGet
    \/ TwinToText
    \/ TwinRepr

SpecTwin == InitTwin /\ [][NextTwin]_vars

-----------------------------------------------------------------------------
(* SpecOr: three masks m = <<a, b, c>>, filled by set and read one by one,    *)
(* and the unions of them.  res holds what the last unions returned.          *)

OrRaw == 3

\* the shapes of a and c, and those of b
OrShapes == {None, <<MaxLen>>}
OrShapesOther == {None, <<MaxLen>>, <<MaxLen + 1>>}

\* the ranges set to 1: two that touch, one that overlaps both, and one apart
\* from the first
OrRanges == {<<0, 1>>, <<1, MaxLen>>, <<0, MaxLen>>, <<MaxLen - 1, MaxLen>>}

RECURSIVE SumLen(_)
SumLen(masks) ==
    IF masks = <<>> THEN 0 ELSE Len(Head(masks).intervals) + SumLen(Tail(masks))

Union(kind, err, ab, ba, abc, a_bc) ==
    [kind |-> kind, err |-> err, ab |-> ab, ba |-> ba, abc |-> abc, a_bc |-> a_bc]

InitOr ==
    /\ \E sa \in OrShapes, sb \in OrShapesOther :
         m = <<Zeros(sa), Zeros(sb), Zeros(sa)>>
    /\ res = NoUnion
    /\ ai = Zeros(None)
    /\ twin = ai
    /\ dense = {}
    /\ ret = Ret("idle", <<>>, <<>>, <<>>, NoErr)

\* m[i][a:b] = 1
OrSet ==
    /\ res = NoUnion
    /\ SumLen(m) < OrRaw
    /\ \E i \in 1..3, q \in OrRanges :
         \E c \in {SetItem(m[i], Slice(q[1], q[2]), Scalar(1))} :
           /\ c.err = NoErr
           /\ m' = [m EXCEPT ![i] = c.self]
    /\ UNCHANGED <<ai, twin, dense, ret, res>>

\* m[i]._intervals_as_str, read and dropped
OrRead ==
    /\ res = NoUnion
    /\ \E i \in 1..3 :
         m' = [m EXCEPT ![i] = IntervalsAsStr(m[i]).self]
    /\ UNCHANGED <<ai, twin, dense, ret, res>>

\* a | b, b | a, (a | b) | c and a | (b | c); the first to raise ends it
OrLaws ==
    /\ res = NoUnion
    /\ \E c1 \in {Or(m[1], m[2])} :
         IF c1.err # NoErr
         THEN /\ res' = Union("raised", c1.err, <<>>, <<>>, <<>>, <<>>)
              /\ m' = <<c1.self, c1.other, m[3]>>
         ELSE \E c2 \in {Or(c1.other, c1.self)} :
                \E c3 \in {Or(c1.val, m[3])} :
                  \E c4 \in {Or(c2.self, c3.other)} :
                    \E c5 \in {Or(c2.other, c4.val)} :
                      /\ res' = Union("returned", NoErr, c1.val, c2.val, c3.val, c5.val)
                      /\ m' = <<c5.self, c4.self, c4.other>>
    /\ UNCHANGED <<ai, twin, dense, ret>>

\* the results are dropped
OrDiscard ==
    /\ res # NoUnion
    /\ res' = NoUnion
    /\ UNCHANGED <<ai, twin, dense, ret, m>>

NextOr ==
    \/ OrSet
    \/ OrRead
    \/ OrLaws
    \/ OrDiscard

SpecOr == InitOr /\ [][NextOr]_vars

-----------------------------------------------------------------------------
(* SpecNormalize: _normalize applied to a list of pairs.  ret.arg is the      *)
(* list it is given, ret.val the tuple it returns.                            *)

NormLen == 3

\* the integers of the pairs
NormInts == -1..3

\* the lists of at most NormLen pairs, in any order, degenerate pairs included
NormInputs == UNION {[1..k -> NormInts \X NormInts] : k \in 0..NormLen}

InitNormalize ==
    /\ ret = Ret("idle", <<>>, <<>>, <<>>, NoErr)
    /\ ai = Zeros(None)
    /\ twin = ai
    /\ dense = {}
    /\ m = <<>>
    /\ res = NoUnion

\* a caller builds a list of pairs
NormInput ==
    /\ ret.op = "idle"
    /\ \E intervals \in NormInputs :
         ret' = Ret("input", <<>>, intervals, <<>>, NoErr)
    /\ UNCHANGED <<ai, twin, dense, m, res>>

\* ArrayIntervall._normalize(intervals)
NormApply ==
    /\ ret.op = "input"
    /\ ret' = Ret("normalize", <<>>, ret.arg, Normalize(ret.arg), NoErr)
    /\ UNCHANGED <<ai, twin, dense, m, res>>

\* the caller drops the list and the tuple
NormDiscard ==
    /\ ret.op = "normalize"
    /\ ret' = Ret("idle", <<>>, <<>>, <<>>, NoErr)
    /\ UNCHANGED <<ai, twin, dense, m, res>>

NextNormalize ==
    \/ NormInput
    \/ NormApply
    \/ NormDiscard

SpecNormalize == InitNormalize /\ [][NextNormalize]_vars

-----------------------------------------------------------------------------
(* SpecText: ArrayIntervall_from_str applied to a text, and the reads of the  *)
(* mask it returns.  ret.arg is the text given.                               *)

TextLen == 3

\* the numbers of the tokens
TextInts == {0, 1, 5, 12}

\* the tokens: start:end with start < end, and three malformed ones
GoodTokens ==
    {IntToStr(p[1]) \o <<":">> \o IntToStr(p[2]) :
        p \in {q \in TextInts \X TextInts : q[1] < q[2]}}
BadTokens == {<<"1", ":">>, <<"x">>, <<"1", "-", "2">>}

\* the lists of at most TextLen tokens, in any order
TokenLists == UNION {[1..k -> GoodTokens \cup BadTokens] : k \in 0..TextLen}

\* the texts: the tokens joined by ", " or ",", with or without a comma at
\* the end; the empty list gives the empty string only
Texts ==
    {Join(sep, toks) : sep \in {<<",", " ">>, <<",">>}, toks \in TokenLists}
    \cup {Join(sep, toks) \o <<",">> :
            sep \in {<<",", " ">>, <<",">>}, toks \in TokenLists \ {<<>>}}

InitText ==
    /\ ai = Zeros(None)
    /\ ret = Ret("idle", <<>>, <<>>, <<>>, NoErr)
    /\ twin = ai
    /\ dense = {}
    /\ m = <<>>
    /\ res = NoUnion

\* ai = ArrayIntervall_from_str(string, shape); nothing is bound when it raises
TextFromStr ==
    /\ ret.op = "idle"
    /\ \E shape \in {None, <<MaxLen>>}, string \in Texts :
         \E c \in {FromStr(string, shape)} :
           /\ ai' = IF c.err = NoErr THEN c.self ELSE ai
           /\ ret' = Ret("from_str", <<>>, string, c.val, c.err)
    /\ UNCHANGED <<twin, dense, m, res>>

\* ai._intervals_as_str of the mask just built
TextToText ==
    /\ ret.op = "from_str" /\ ret.err = NoErr
    /\ \E c \in {IntervalsAsStr(ai)} :
         /\ ai' = c.self
         /\ ret' = Ret("to_text", <<>>, ret.arg, c.val, c.err)
    /\ UNCHANGED <<twin, dense, m, res>>

\* ai[0:MaxLen] and ai[:] of the mask just built
TextGet ==
    /\ ret.op = "from_str" /\ ret.err = NoErr
    /\ \E item \in {Slice(0, MaxLen), SliceItem(None, None, None)} :
         \E c \in {GetItem(ai, item)} :
           /\ ai' = c.self
           /\ ret' = Ret("get", RangeOf(item, ai.shape), ret.arg, c.val, c.err)
    /\ UNCHANGED <<twin, dense, m, res>>

\* the caller drops the mask and what it read
TextDiscard ==
    /\ ret.op # "idle"
    /\ ai' = Zeros(None)
    /\ ret' = Ret("idle", <<>>, <<>>, <<>>, NoErr)
    /\ UNCHANGED <<twin, dense, m, res>>

NextText ==
    \/ TextFromStr
    \/ TextToText
    \/ TextGet
    \/ TextDiscard

SpecText == InitText /\ [][NextText]_vars

-----------------------------------------------------------------------------
(* SpecReaders: threads that read one mask, one attribute access at a time *)

\* the number of reading threads
Readers == 2
ReaderPairs == {p \in (0..MaxLen) \X (0..MaxLen) : p[1] < p[2]}

\* the tuples _normalize returns for pairs within 0..MaxLen
ReaderNormalized ==
    {l \in UNION {[1..k -> ReaderPairs] : k \in 0..((MaxLen + 1) \div 2)} :
        Normalize(l) = l}

\* the masks the threads may find: a tuple _normalize returned (flag True),
\* and tuples left behind by assignments (flag False): the same pairs, in
\* reverse, or with the first pair assigned again
ReaderMasks ==
    {[shape |-> s, intervals |-> l, normalized |-> TRUE] :
        s \in {None, <<MaxLen>>}, l \in ReaderNormalized}
    \cup
    {[shape |-> s, intervals |-> raw, normalized |-> FALSE] :
        s \in {None, <<MaxLen>>},
        raw \in UNION {{l, [k \in 1..Len(l) |-> l[Len(l) + 1 - k]],
                        IF l = <<>> THEN l ELSE Append(l, l[1])} :
                       l \in ReaderNormalized}}

\* the items the threads get
ReaderItems == {Slice(1, MaxLen), SliceItem(None, None, None)}

ReaderCalls ==
    {[op |-> "get", item |-> item] : item \in ReaderItems}
        \cup {[op |-> "to_text", item |-> Slice(0, 0)],
              [op |-> "repr", item |-> Slice(0, 0)]}

\* a thread: where it is in its call, the call, the range it resolved, and
\* what the call returned or raised
Reader(pc, call, range, val, err) ==
    [pc |-> pc, call |-> call, range |-> range, val |-> val, err |-> err]

ReaderIdle == Reader("idle", [op |-> "none", item |-> Slice(0, 0)], <<>>, <<>>, NoErr)

\* a stale read of self._intervals_normalized: always False
IntervalsNormalizedStale(self) == FALSE

\* the read of self._intervals_normalized in normalized_intervals
IntervalsNormalized(self) == self.normalized

\* what a read computes from the tuple normalized_intervals returned
ReaderResult(call, range, shape, intervals) ==
    IF call.op = "get"
    THEN LET clipped == Intersection(range, intervals)
         IN  [k \in 1..(range[2] - range[1]) |->
                 \E j \in 1..Len(clipped) :
                     /\ clipped[j][1] - range[1] <= k - 1
                     /\ k - 1 < clipped[j][2] - range[1]]
    ELSE IF call.op = "to_text" THEN FormatIntervals(intervals)
    ELSE <<FormatIntervals(intervals), shape>>

InitReaders ==
    /\ ai \in ReaderMasks
    /\ twin = ai
    /\ dense = {}
    /\ ret = Ret("idle", <<>>, <<>>, <<>>, NoErr)
    /\ m = [t \in 1..Readers |-> ReaderIdle]
    /\ res = 0

\* a thread enters ai[item], ai._intervals_as_str or repr(ai); ai[item]
\* resolves the item first
ReaderCall(t) ==
    /\ m[t].pc = "idle"
    /\ \E call \in ReaderCalls :
         \E r \in {IF call.op = "get" THEN ParseItem(call.item, ai.shape)
                   ELSE Resolved(0, 0)} :
             m' = [m EXCEPT ![t] =
                     IF r.err # NoErr
                     THEN Reader("done", call, <<>>, <<>>, r.err)
                     ELSE Reader("flag", call, <<r.start, r.stop>>, <<>>, NoErr)]
    /\ UNCHANGED <<ai, twin, dense, ret, res>>

\* if not self._intervals_normalized
ReaderFlag(t) ==
    /\ m[t].pc = "flag"
    /\ m' = [m EXCEPT ![t].pc =
                IF IntervalsNormalized(ai) THEN "return" ELSE "normalize"]
    /\ UNCHANGED <<ai, twin, dense, ret, res>>

\* self._intervals = self._normalize(self._intervals)
ReaderNormalize(t) ==
    /\ m[t].pc = "normalize"
    /\ ai' = [ai EXCEPT !.intervals = Normalize(ai.intervals)]
    /\ res' = res + 1
    /\ m' = [m EXCEPT ![t].pc = "set_flag"]
    /\ UNCHANGED <<twin, dense, ret>>

\* self._intervals_normalized = True
ReaderSetFlag(t) ==
    /\ m[t].pc = "set_flag"
    /\ ai' = [ai EXCEPT !.normalized = TRUE]
    /\ res' = res + 1
    /\ m' = [m EXCEPT ![t].pc = "return"]
    /\ UNCHANGED <<twin, dense, ret>>

\* return self._intervals, and the caller's work on the tuple
ReaderReturn(t) ==
    /\ m[t].pc = "return"
    /\ m' = [m EXCEPT ![t] =
                Reader("done", m[t].call, m[t].range,
                       ReaderResult(m[t].call, m[t].range, ai.shape, ai.intervals),
                       NoErr)]
    /\ UNCHANGED <<ai, twin, dense, ret, res>>

\* every thread has returned: the results are let go, the mask is kept
ReadersDiscard ==
    /\ \A t \in 1..Readers : m[t].pc = "done"
    /\ m' = [t \in 1..Readers |-> ReaderIdle]
    /\ twin' = ai
    /\ res' = 0
    /\ UNCHANGED <<ai, dense, ret>>

NextReaders ==
    \/ \E t \in 1..Readers : ReaderCall(t)
    \/ \E t \in 1..Readers : ReaderFlag(t)
    \/ \E t \in 1..Readers : ReaderNormalize(t)
    \/ \E t \in 1..Readers : ReaderSetFlag(t)
    \/ \E t \in 1..Readers : ReaderReturn(t)
    \/ ReadersDiscard

SpecReaders == InitReaders /\ [][NextReaders]_vars

-----------------------------------------------------------------------------
(* SpecWriters: threads that assign 1 to ranges of one mask, one attribute *)
(* access at a time, with or without a mutex of the callers around a call  *)

\* the number of writing threads
Writers == 2

\* the ranges the threads set to 1: two apart, and one over both
WriterRanges == {<<0, 1>>, <<1, MaxLen>>, <<0, MaxLen>>}

\* a thread: where it is in its call, the range it resolved, and the tuple
\* it is about to hand to the intervals setter
Writer(pc, range, item) == [pc |-> pc, range |-> range, item |-> item]

\* self.intervals + ((start, stop),) that drops what self.intervals holds
ExtendedAlone(self, q) == <<q>>

\* self.intervals + ((start, stop),)
Extended(self, q) == self.intervals \o <<q>>

InitWriters ==
    /\ ai \in ReaderMasks
    /\ twin = ai
    /\ dense = {}
    /\ ret = Ret("idle", <<>>, <<>>, <<>>, NoErr)
    /\ m = [t \in 1..Writers |-> Writer("idle", <<>>, <<>>)]
    /\ res \in [mutex : BOOLEAN, holder : {0}]

\* the caller takes the mutex before the call
WriterAcquire(t) ==
    /\ res.mutex /\ res.holder = 0
    /\ m[t].pc = "idle"
    /\ res' = [res EXCEPT !.holder = t]
    /\ m' = [m EXCEPT ![t].pc = "locked"]
    /\ UNCHANGED <<ai, twin, dense, ret>>

\* ai[start:stop] = 1 is entered: cy_parse_item, and the tests of value
WriterCall(t) ==
    /\ m[t].pc = IF res.mutex THEN "locked" ELSE "idle"
    /\ \E q \in WriterRanges :
         \E r \in {ParseItem(Slice(q[1], q[2]), ai.shape)} :
             /\ r.err = NoErr
             /\ m' = [m EXCEPT ![t] = Writer("read", <<r.start, r.stop>>, <<>>)]
    /\ UNCHANGED <<ai, twin, dense, ret, res>>

\* the right-hand side self.intervals + ((start, stop),) is read
WriterRead(t) ==
    /\ m[t].pc = "read"
    /\ m' = [m EXCEPT ![t] = Writer("flag", m[t].range, Extended(ai, m[t].range))]
    /\ UNCHANGED <<ai, twin, dense, ret, res>>

\* the setter: self._intervals_normalized = False
WriterFlag(t) ==
    /\ m[t].pc = "flag"
    /\ ai' = [ai EXCEPT !.normalized = FALSE]
    /\ m' = [m EXCEPT ![t].pc = "store"]
    /\ UNCHANGED <<twin, dense, ret, res>>

\* the setter: self._intervals = tuple(item)
WriterStore(t) ==
    /\ m[t].pc = "store"
    /\ ai' = [ai EXCEPT !.intervals = m[t].item]
    /\ m' = [m EXCEPT ![t].pc = IF res.mutex THEN "stored" ELSE "done"]
    /\ UNCHANGED <<twin, dense, ret, res>>

\* the caller gives the mutex back after the call
WriterRelease(t) ==
    /\ m[t].pc = "stored"
    /\ res' = [res EXCEPT !.holder = 0]
    /\ m' = [m EXCEPT ![t].pc = "done"]
    /\ UNCHANGED <<ai, twin, dense, ret>>

NextWriters ==
    \/ \E t \in 1..Writers : WriterAcquire(t)
    \/ \E t \in 1..Writers : WriterCall(t)
    \/ \E t \in 1..Writers : WriterRead(t)
    \/ \E t \in 1..Writers : WriterFlag(t)
    \/ \E t \in 1..Writers : WriterStore(t)
    \/ \E t \in 1..Writers : WriterRelease(t)

SpecWriters == InitWriters /\ [][NextWriters]_vars

-----------------------------------------------------------------------------
(* SpecSubtract: ai[qs:qe] = 0 and ai[qs:qe] = [False, ...] on the raw      *)
(* tuples of a mask of unknown shape                                       *)

\* the mask holds at most this many pairs before the assignment
SubLen == 2

SubPairs == {p \in (0..MaxLen) \X (0..MaxLen) : p[1] < p[2]}

\* the raw tuples: any pairs in any order, overlapping or not
SubInputs == UNION {[1..k -> SubPairs] : k \in 0..SubLen}

\* the ranges cleared, the empty ones among them
SubQueries == {q \in (0..MaxLen) \X (0..MaxLen) : q[1] <= q[2]}

\* 0, and the array of n times False
SubValues(n) ==
    {Scalar(0)} \cup (IF n > 0 THEN {Array("bool", [k \in 1..n |-> FALSE])} ELSE {})

InitSubtract ==
    /\ ai = Zeros(None)
    /\ twin = ai
    /\ dense = {}
    /\ ret = Ret("idle", <<>>, <<>>, <<>>, NoErr)
    /\ m = <<>>
    /\ res = NoUnion

\* a mask of unknown shape is given the pairs, one assignment of 1 each
SubInput ==
    /\ ret.op = "idle"
    /\ \E l \in SubInputs :
         /\ ai' = SetIntervals(Zeros(None), l)
         /\ twin' = ai'
         /\ ret' = Ret("set", <<>>, ValueTag(Scalar(1)), <<>>, NoErr)
    /\ UNCHANGED <<dense, m, res>>

\* ai[qs:qe] = 0, or ai[qs:qe] = [False] * (qe - qs)
SubApply ==
    /\ ret.op = "set"
    /\ \E q \in SubQueries :
         \E value \in SubValues(q[2] - q[1]) :
             \E c \in {SetItem(ai, Slice(q[1], q[2]), value)} :
                 /\ ai' = c.self
                 /\ ret' = Ret("cleared", q, ValueTag(value), <<>>, c.err)
    /\ UNCHANGED <<twin, dense, m, res>>

\* the caller lets go of the mask
SubDiscard ==
    /\ ret.op = "cleared"
    /\ ai' = Zeros(None)
    /\ twin' = ai'
    /\ ret' = Ret("idle", <<>>, <<>>, <<>>, NoErr)
    /\ UNCHANGED <<dense, m, res>>

NextSubtract == SubInput \/ SubApply \/ SubDiscard

SpecSubtract == InitSubtract /\ [][NextSubtract]_vars

-----------------------------------------------------------------------------
(* SpecPickle: __reduce__ of a mask, and the call pickle.loads makes of what *)
(* it returned.  twin is the mask as it was built, ai the mask after the     *)
(* calls, m the mask rebuilt.                                                *)

InitPickle ==
    /\ ai = Zeros(None)
    /\ twin = ai
    /\ dense = {}
    /\ ret = Ret("idle", <<>>, <<>>, <<>>, NoErr)
    /\ m = <<>>
    /\ res = NoUnion

\* a mask of known or unknown shape, normalized or holding raw pairs
PickleMask ==
    /\ ret.op = "idle"
    /\ \E mask \in ReaderMasks :
         /\ ai' = mask
         /\ twin' = mask
    /\ ret' = Ret("mask", <<>>, <<>>, <<>>, NoErr)
    /\ UNCHANGED <<dense, m, res>>

\* ai.__reduce__()
PickleReduce ==
    /\ ret.op = "mask"
    /\ \E c \in {Reduce(ai)} :
         /\ ai' = c.self
         /\ ret' = Ret("reduce", <<>>, <<>>, c.val, c.err)
    /\ UNCHANGED <<twin, dense, m, res>>

\* ArrayIntervall_from_str(*args) for the args __reduce__ returned; zeros
\* turns the int n into the shape (n,)
PickleLoads ==
    /\ ret.op = "reduce" /\ ret.err = NoErr
    /\ \E c \in {FromStr(ret.val[1], <<ret.val[2]>>)} :
         /\ m' = IF c.err = NoErr THEN <<c.self>> ELSE <<>>
         /\ ret' = Ret("loads", <<>>, ret.val, c.val, c.err)
    /\ UNCHANGED <<ai, twin, dense, res>>

\* the caller lets go of the masks
PickleDiscard ==
    /\ ret.op \in {"reduce", "loads"}
    /\ ai' = Zeros(None)
    /\ twin' = ai'
    /\ m' = <<>>
    /\ ret' = Ret("idle", <<>>, <<>>, <<>>, NoErr)
    /\ UNCHANGED <<dense, res>>

NextPickle == PickleMask \/ PickleReduce \/ PickleLoads \/ PickleDiscard

SpecPickle == InitPickle /\ [][NextPickle]_vars

-----------------------------------------------------------------------------
(* SpecRttm: ArrayIntervalls_from_rttm, one line of the file per step.  m is *)
(* the frame of the call: the lines, the number of lines done, the dict data *)
(* (a function from the keys seen to their masks), shape and sample_rate.    *)

\* the file has at most this many lines
RttmLines == 3

\* decimal.Decimal(parts[3]) and decimal.Decimal(parts[4]): the times of the
\* lines are exact multiples of 1 / TicksPerSecond seconds
TicksPerSecond == 2

\* <type> <file-id> <channel-id> <begin-time> <duration> <ortho> <stype>
\* <name> <conf>, the parts that are read; begin and duration in ticks
RttmLine(type, file, begin, duration, name) ==
    [type |-> type, file |-> file, begin |-> begin, duration |-> duration,
     name |-> name]

\* the (file-id, name) pairs of the lines: two speakers of one file, and one
\* of them in a second file
RttmKeys == {<<"S01", "1">>, <<"S01", "2">>, <<"S02", "1">>}

\* begin and duration in ticks: 0 s + 1 s, 1 s + 1 s, 0.5 s + 0.5 s, 0 s + 0.5 s
RttmSegments == {<<0, 2>>, <<2, 2>>, <<1, 1>>, <<0, 1>>}

RttmLineSet ==
    {RttmLine("SPEAKER", k[1], s[1], s[2], k[2]) : k \in RttmKeys, s \in RttmSegments}
        \cup {RttmLine("SPKR-INFO", "S01", 0, 2, "1")}

RttmFiles == UNION {[1..n -> RttmLineSet] : n \in 0..RttmLines}

RttmRates == {1, 2}

\* the sample position of a time: time * sample_rate, a Decimal
IsSample(ticks, sample_rate) == (ticks * sample_rate) % TicksPerSecond = 0
Sample(ticks, sample_rate) == (ticks * sample_rate) \div TicksPerSecond

\* the body of the loop that binds data[(file_id, name)] to a new mask
\* holding the segment
LoadLineFresh(data, line, shape, sample_rate) ==
    IF line.type # "SPEAKER" THEN [data |-> data, err |-> "AssertionError"]
    ELSE LET end_time == line.begin + line.duration
             key == <<line.file, line.name>>
         IN  IF ~IsSample(line.begin, sample_rate)
                \/ ~IsSample(end_time, sample_rate)
             THEN [data |-> data, err |-> "AssertionError"]
             ELSE LET c == SetItem(Zeros(shape),
                                   Slice(Sample(line.begin, sample_rate),
                                         Sample(end_time, sample_rate)),
                                   Scalar(1))
                  IN  [data |-> [k \in DOMAIN data \cup {key} |->
                                    IF k = key THEN c.self ELSE data[k]],
                       err |-> c.err]

\* the body of the loop: the asserts, and data[(file_id, name)][b:e] = 1 on
\* the defaultdict, whose missing keys are bound to zeros(shape)
LoadLine(data, line, shape, sample_rate) ==
    IF line.type # "SPEAKER" THEN [data |-> data, err |-> "AssertionError"]
    ELSE LET end_time == line.begin + line.duration
             key == <<line.file, line.name>>
         IN  IF ~IsSample(line.begin, sample_rate)
                \/ ~IsSample(end_time, sample_rate)
             THEN [data |-> data, err |-> "AssertionError"]
             ELSE LET mask == IF key \in DOMAIN data THEN data[key] ELSE Zeros(shape)
                      c == SetItem(mask,
                                   Slice(Sample(line.begin, sample_rate),
                                         Sample(end_time, sample_rate)),
                                   Scalar(1))
                  IN  [data |-> [k \in DOMAIN data \cup {key} |->
                                    IF k = key THEN c.self ELSE data[k]],
                       err |-> c.err]

\* paderbox.utils.nested.deflatten(data, sep=None): the dict keyed by
\* (file_id, name) as a dict of dicts
Deflatten(data) ==
    [file \in {k[1] : k \in DOMAIN data} |->
        [name \in {k[2] : k \in {j \in DOMAIN data : j[1] = file}} |->
            data[<<file, name>>]]]

NoData == [k \in {} |-> Zeros(None)]

RttmFrame(lines, done, data, shape, sample_rate) ==
    [lines |-> lines, done |-> done, data |-> data, shape |-> shape,
     sample_rate |-> sample_rate]

InitRttm ==
    /\ ai = Zeros(None)
    /\ twin = ai
    /\ dense = {}
    /\ ret = Ret("idle", <<>>, <<>>, <<>>, NoErr)
    /\ m = RttmFrame(<<>>, 0, NoData, None, 1)
    /\ res = NoUnion

\* ArrayIntervalls_from_rttm(rttm_file, sample_rate=...) is entered: the
\* lines are read, data is empty
RttmOpen ==
    /\ ret.op = "idle"
    /\ \E lines \in RttmFiles : \E sample_rate \in RttmRates :
         m' = RttmFrame(lines, 0, NoData, None, sample_rate)
    /\ ret' = Ret("loading", <<>>, <<>>, <<>>, NoErr)
    /\ UNCHANGED <<ai, twin, dense, res>>

\* one pass of the loop; a failed assert leaves the call
RttmStep ==
    /\ ret.op = "loading"
    /\ m.done < Len(m.lines)
    /\ \E c \in {LoadLine(m.data, m.lines[m.done + 1], m.shape, m.sample_rate)} :
         /\ m' = [m EXCEPT !.done = m.done + 1, !.data = c.data]
         /\ ret' = IF c.err = NoErr THEN ret
                   ELSE Ret("rttm", <<>>, <<>>, <<>>, c.err)
    /\ UNCHANGED <<ai, twin, dense, res>>

\* return deflatten(data, sep=None)
RttmReturn ==
    /\ ret.op = "loading"
    /\ m.done = Len(m.lines)
    /\ ret' = Ret("rttm", <<>>, <<>>, Deflatten(m.data), NoErr)
    /\ UNCHANGED <<ai, twin, dense, m, res>>

\* the caller lets go of the result
RttmDiscard ==
    /\ ret.op = "rttm"
    /\ ret' = Ret("idle", <<>>, <<>>, <<>>, NoErr)
    /\ m' = RttmFrame(<<>>, 0, NoData, None, 1)
    /\ UNCHANGED <<ai, twin, dense, res>>

NextRttm == RttmOpen \/ RttmStep \/ RttmReturn \/ RttmDiscard

SpecRttm == InitRttm /\ [][NextRttm]_vars

-----------------------------------------------------------------------------
(* SpecIsolation: several masks of one process.  m is the memory: the class *)
(* attributes _intervals and _intervals_normalized, and for every mask the  *)
(* attributes its own __dict__ holds (own) with their values.  res counts   *)
(* the calls that assign attributes.                                        *)

\* at most this many masks are alive
IsoMasks == 3
\* at most this many assigning calls are made
IsoCalls == 3

\* the ranges assigned: they touch, so normalizing merges them
IsoRanges == {<<0, 1>>, <<1, MaxLen>>}

\* class ArrayIntervall: _intervals_normalized = True, _intervals = ()
ClassAttrs == [intervals |-> <<>>, normalized |-> TRUE]

\* zeros(shape): ArrayIntervall.__new__ and ai.shape = shape; no other
\* attribute is in the __dict__ of the mask
NewMask(shape) ==
    [shape |-> shape, own |-> {}, intervals |-> <<>>, normalized |-> TRUE]

\* self._intervals and self._intervals_normalized: the attribute of the
\* mask if it has one, the attribute of the class if not
View(mem, i) ==
    [shape |-> mem.inst[i].shape,
     intervals |-> IF "intervals" \in mem.inst[i].own
                   THEN mem.inst[i].intervals ELSE mem.cls.intervals,
     normalized |-> IF "normalized" \in mem.inst[i].own
                    THEN mem.inst[i].normalized ELSE mem.cls.normalized]

\* the two assignments as ArrayIntervall._intervals = ... and
\* ArrayIntervall._intervals_normalized = ...: attributes of the class
StoreShared(mem, i, mask) ==
    [mem EXCEPT !.cls = [intervals |-> mask.intervals,
                         normalized |-> mask.normalized]]

\* self._intervals_normalized = ... and self._intervals = ...: both are
\* bound in the __dict__ of the mask
Store(mem, i, mask) ==
    [mem EXCEPT !.inst[i] = [shape |-> mem.inst[i].shape,
                             own |-> {"intervals", "normalized"},
                             intervals |-> mask.intervals,
                             normalized |-> mask.normalized]]

InitIsolation ==
    /\ ai = Zeros(None)
    /\ twin = ai
    /\ dense = {}
    /\ ret = Ret("idle", <<>>, <<>>, <<>>, NoErr)
    /\ m = [cls |-> ClassAttrs, inst |-> <<>>]
    /\ res = 0

\* zeros(MaxLen)
IsoZeros ==
    /\ Len(m.inst) < IsoMasks
    /\ m' = [m EXCEPT !.inst = Append(m.inst, NewMask(<<MaxLen>>))]
    /\ ret' = Ret("zeros", <<>>, <<>>, <<>>, NoErr)
    /\ UNCHANGED <<ai, twin, dense, res>>

\* mask i: self[a:b] = 1 or self[a:b] = 0; the setter runs when the call
\* does not raise
IsoSet ==
    /\ res < IsoCalls
    /\ \E i \in 1..Len(m.inst) : \E q \in IsoRanges : \E v \in {0, 1} :
         \E c \in {SetItem(View(m, i), Slice(q[1], q[2]), Scalar(v))} :
             /\ m' = IF c.err = NoErr THEN Store(m, i, c.self) ELSE m
             /\ ret' = Ret("set", <<>>, <<i>>, <<>>, c.err)
    /\ res' = res + 1
    /\ UNCHANGED <<ai, twin, dense>>

\* mask i: self.add_intervals([slice(0, 1), slice(1, MaxLen)])
IsoAddIntervals ==
    /\ res < IsoCalls
    /\ \E i \in 1..Len(m.inst) :
         \E c \in {AddIntervals(View(m, i), <<Slice(0, 1), Slice(1, MaxLen)>>)} :
             /\ m' = IF c.err = NoErr THEN Store(m, i, c.self) ELSE m
             /\ ret' = Ret("add_intervals", <<>>, <<i>>, <<>>, c.err)
    /\ res' = res + 1
    /\ UNCHANGED <<ai, twin, dense>>

\* mask i: a read through normalized_intervals, which assigns the tuple and
\* the flag when the flag is False
IsoRead ==
    /\ \E i \in 1..Len(m.inst) :
         \E c \in {NormalizedIntervals(View(m, i))} :
             /\ m' = IF ~View(m, i).normalized THEN Store(m, i, c.self) ELSE m
             /\ ret' = Ret("to_text", <<>>, <<i>>, FormatIntervals(c.val), c.err)
    /\ UNCHANGED <<ai, twin, dense, res>>

\* masks i and j: self | other; the result is a new mask, bound by zeros and
\* assigned by the setter
IsoOr ==
    /\ res < IsoCalls
    /\ Len(m.inst) < IsoMasks
    /\ \E i, j \in 1..Len(m.inst) :
         \E c \in {Or(View(m, i), View(m, j))} :
             /\ m' = IF c.err = NoErr
                     THEN Store([m EXCEPT !.inst = Append(m.inst, NewMask(c.val.shape))],
                                Len(m.inst) + 1, c.val)
                     ELSE m
             /\ ret' = Ret("or", <<>>, <<>>, <<>>, c.err)
    /\ res' = res + 1
    /\ UNCHANGED <<ai, twin, dense>>

NextIsolation == IsoZeros \/ IsoSet \/ IsoAddIntervals \/ IsoRead \/ IsoOr

SpecIsolation == InitIsolation /\ [][NextIsolation]_vars

-----------------------------------------------------------------------------
(* SpecRace: one thread reading normalized_intervals and one thread running *)
(* ai[start:stop] = 1 on the same mask, one attribute access at a time,     *)
(* with or without a mutex of the callers around each call.  m.r is the     *)
(* reader, m.w the writer.                                                   *)

RaceThreads == {"r", "w"}

\* a thread: where it is, the range it resolved (the writer), and the tuple
\* it has read or is about to store
Racer(pc, range, item) == [pc |-> pc, range |-> range, item |-> item]

\* self._intervals = ... of normalized_intervals storing the tuple it read
StoreAsRead(self, item) == [self EXCEPT !.intervals = item]

\* self._intervals = self._normalize(...) of normalized_intervals
StoreNormalized(self, item) == [self EXCEPT !.intervals = Normalize(item)]

InitRace ==
    /\ ai \in ReaderMasks
    /\ twin = ai
    /\ dense = {}
    /\ ret = Ret("idle", <<>>, <<>>, <<>>, NoErr)
    /\ m = [t \in RaceThreads |-> Racer("idle", <<>>, <<>>)]
    /\ res \in [mutex : BOOLEAN, holder : {"none"}]

\* the caller takes the mutex before the call
RaceAcquire(t) ==
    /\ res.mutex /\ res.holder = "none"
    /\ m[t].pc = "idle"
    /\ res' = [res EXCEPT !.holder = t]
    /\ m' = [m EXCEPT ![t].pc = "locked"]
    /\ UNCHANGED <<ai, twin, dense, ret>>

\* the caller gives the mutex back after the call
RaceRelease(t) ==
    /\ m[t].pc = "returned"
    /\ res' = [res EXCEPT !.holder = "none"]
    /\ m' = [m EXCEPT ![t].pc = "done"]
    /\ UNCHANGED <<ai, twin, dense, ret>>

\* the reader: if not self._intervals_normalized
RaceFlag ==
    /\ m["r"].pc = IF res.mutex THEN "locked" ELSE "idle"
    /\ m' = [m EXCEPT !["r"].pc =
                IF IntervalsNormalized(ai) THEN "return" ELSE "read"]
    /\ UNCHANGED <<ai, twin, dense, ret, res>>

\* the reader: self._intervals is read, the argument of self._normalize
RaceRead ==
    /\ m["r"].pc = "read"
    /\ m' = [m EXCEPT !["r"] = Racer("store", <<>>, ai.intervals)]
    /\ UNCHANGED <<ai, twin, dense, ret, res>>

\* the reader: self._intervals = self._normalize(...)
RaceStore ==
    /\ m["r"].pc = "store"
    /\ ai' = StoreNormalized(ai, m["r"].item)
    /\ m' = [m EXCEPT !["r"].pc = "set_flag"]
    /\ UNCHANGED <<twin, dense, ret, res>>

\* the reader: self._intervals_normalized = True
RaceSetFlag ==
    /\ m["r"].pc = "set_flag"
    /\ ai' = [ai EXCEPT !.normalized = TRUE]
    /\ m' = [m EXCEPT !["r"].pc = "return"]
    /\ UNCHANGED <<twin, dense, ret, res>>

\* the reader: return self._intervals
RaceReturn ==
    /\ m["r"].pc = "return"
    /\ m' = [m EXCEPT !["r"] = Racer(IF res.mutex THEN "returned" ELSE "done",
                                     <<>>, ai.intervals)]
    /\ UNCHANGED <<ai, twin, dense, ret, res>>

\* the writer enters ai[start:stop] = 1: cy_parse_item, and the tests of value
RaceCall ==
    /\ m["w"].pc = IF res.mutex THEN "locked" ELSE "idle"
    /\ \E q \in WriterRanges :
         \E r \in {ParseItem(Slice(q[1], q[2]), ai.shape)} :
             /\ r.err = NoErr
             /\ m' = [m EXCEPT !["w"] = Racer("extend", <<r.start, r.stop>>, <<>>)]
    /\ UNCHANGED <<ai, twin, dense, ret, res>>

\* the writer: the right-hand side self.intervals + ((start, stop),) is read
RaceExtend ==
    /\ m["w"].pc = "extend"
    /\ m' = [m EXCEPT !["w"] = Racer("clear_flag", m["w"].range,
                                     Extended(ai, m["w"].range))]
    /\ UNCHANGED <<ai, twin, dense, ret, res>>

\* the writer, in the setter: self._intervals_normalized = False
RaceClearFlag ==
    /\ m["w"].pc = "clear_flag"
    /\ ai' = [ai EXCEPT !.normalized = FALSE]
    /\ m' = [m EXCEPT !["w"].pc = "assign"]
    /\ UNCHANGED <<twin, dense, ret, res>>

\* the writer, in the setter: self._intervals = tuple(item)
RaceAssign ==
    /\ m["w"].pc = "assign"
    /\ ai' = [ai EXCEPT !.intervals = m["w"].item]
    /\ m' = [m EXCEPT !["w"].pc = IF res.mutex THEN "returned" ELSE "done"]
    /\ UNCHANGED <<twin, dense, ret, res>>

NextRace ==
    \/ \E t \in RaceThreads : RaceAcquire(t)
    \/ \E t \in RaceThreads : RaceRelease(t)
    \/ RaceFlag
    \/ RaceRead
    \/ RaceStore
    \/ RaceSetFlag
    \/ RaceReturn
    \/ RaceCall
    \/ RaceExtend
    \/ RaceClearFlag
    \/ RaceAssign

SpecRace == InitRace /\ [][NextRace]_vars

-----------------------------------------------------------------------------
(* SpecMerge: _normalize one statement at a time.  m is the frame of the     *)
(* call: the working list, the index i of the for loop (counted from 1), the *)
(* length n range() was given, the pair (s, e) of the iteration and the pair *)
(* read at i+1.  res counts the elements deleted.                            *)

MergeLen == 3

MergeInts == 0..3

\* the pairs a caller passes: intervals, empty ones, and reversed ones
MergePairs == {p \in MergeInts \X MergeInts : p[1] <= p[2] + 1}

MergeInputs == UNION {[1..k -> MergePairs] : k \in 0..MergeLen}

Frame(pc, intervals, n, i, cur, next) ==
    [pc |-> pc, intervals |-> intervals, n |-> n, i |-> i,
     cur |-> cur, next |-> next]

\* e = max(e, next_e); del intervals[i+1] without the deletion
MergedKept(f) ==
    [f EXCEPT !.cur = <<f.cur[1], Max(f.cur[2], f.next[2])>>]

\* e = max(e, next_e); del intervals[i+1]
Merged(f) ==
    [f EXCEPT !.cur = <<f.cur[1], Max(f.cur[2], f.next[2])>>,
              !.intervals = DeleteAt(f.intervals, f.i + 1)]

InitMerge ==
    /\ \E intervals \in MergeInputs :
         ret = Ret("input", <<>>, intervals, <<>>, NoErr)
    /\ ai = Zeros(None)
    /\ twin = ai
    /\ dense = {}
    /\ m = Frame("sort", <<>>, 0, 0, <<>>, <<>>)
    /\ res = 0

\* intervals = [(s, e) for s, e in sorted(intervals) if s < e], and range(len(intervals))
MergeSort ==
    /\ m.pc = "sort"
    /\ \E l \in {SelectSeq(Sorted(ret.arg), LAMBDA p : p[1] < p[2])} :
         m' = Frame("for", l, Len(l), 0, <<>>, <<>>)
    /\ UNCHANGED <<ai, twin, dense, ret, res>>

\* for i in range(len(intervals)): the next index, or the end of the range
MergeFor ==
    /\ m.pc = "for"
    /\ m' = IF m.i < m.n
            THEN Frame("index", m.intervals, m.n, m.i + 1, <<>>, <<>>)
            ELSE [m EXCEPT !.pc = "return"]
    /\ UNCHANGED <<ai, twin, dense, ret, res>>

\* s, e = intervals[i], and break on IndexError
MergeIndex ==
    /\ m.pc = "index"
    /\ m' = IF m.i <= Len(m.intervals)
            THEN [m EXCEPT !.pc = "next", !.cur = m.intervals[m.i]]
            ELSE [m EXCEPT !.pc = "return"]
    /\ UNCHANGED <<ai, twin, dense, ret, res>>

\* next_s, next_e = intervals[i+1] before the while loop; IndexError passes
MergeNext ==
    /\ m.pc = "next"
    /\ m' = IF m.i + 1 <= Len(m.intervals)
            THEN [m EXCEPT !.pc = "while", !.next = m.intervals[m.i + 1]]
            ELSE [m EXCEPT !.pc = "finally"]
    /\ UNCHANGED <<ai, twin, dense, ret, res>>

\* while next_s <= e
MergeWhile ==
    /\ m.pc = "while"
    /\ m' = [m EXCEPT !.pc = IF m.next[1] <= m.cur[2] THEN "body" ELSE "finally"]
    /\ UNCHANGED <<ai, twin, dense, ret, res>>

\* the body of the while loop: e = max(e, next_e); del intervals[i+1];
\* next_s, next_e = intervals[i+1], where IndexError passes
MergeBody ==
    /\ m.pc = "body"
    /\ \E f \in {Merged(m)} :
         m' = IF f.i + 1 <= Len(f.intervals)
              THEN [f EXCEPT !.pc = "while", !.next = f.intervals[f.i + 1]]
              ELSE [f EXCEPT !.pc = "finally", !.next = <<>>]
    /\ res' = res + 1
    /\ UNCHANGED <<ai, twin, dense, ret>>

\* finally: intervals[i] = (s, e)
MergeFinally ==
    /\ m.pc = "finally"
    /\ m' = Frame("for", [m.intervals EXCEPT ![m.i] = m.cur], m.n, m.i, <<>>, <<>>)
    /\ UNCHANGED <<ai, twin, dense, ret, res>>

\* return tuple(intervals)
MergeReturn ==
    /\ m.pc = "return"
    /\ m' = [m EXCEPT !.pc = "done"]
    /\ ret' = Ret("normalize", <<>>, ret.arg, m.intervals, NoErr)
    /\ UNCHANGED <<ai, twin, dense, res>>

NextMerge ==
    \/ MergeSort
    \/ MergeFor
    \/ MergeIndex
    \/ MergeNext
    \/ MergeWhile
    \/ MergeBody
    \/ MergeFinally
    \/ MergeReturn

SpecMerge == InitMerge /\ [][NextMerge]_vars

\* the interpreter runs the call on: a statement that can run does run
SpecMergeFair == SpecMerge /\ WF_vars(NextMerge)

-----------------------------------------------------------------------------
(* Claims checked under Spec *)

\* C1: every get returns the slice a dense boolean array holds after the same
\* assignments: ai[a:b] is the dense array's [a:b], whatever calls came before.
DenseEquivalence ==
    (ret.op = "get" /\ ret.err = NoErr)
        => ret.val = DenseGet(dense, ret.range[1], ret.range[2])

\* a get, not from index 0, that returned True and False after assignments
DenseEquivalenceWitness ==
    /\ ret.op = "get" /\ ret.err = NoErr
    /\ ret.range[1] > 0
    /\ \E j, k \in 1..Len(ret.val) : ret.val[j] /\ ~ret.val[k]
    /\ Len(ai.intervals) = 2

\* C3: from_str(m._intervals_as_str, domain length of m) has the normalized
\* intervals and the shape of m, for known and unknown shapes.
TextRoundTrip ==
    [][ret'.op = "from_text"
         => /\ ret'.err = NoErr
            /\ Normalize(ai'.intervals) = Normalize(ai.intervals)
            /\ ai'.shape = ai.shape]_vars

\* a mask of two intervals, one of them written with two digits, was rebuilt
\* from its text
TextRoundTripWitness ==
    /\ ret.op = "from_text" /\ ret.err = NoErr
    /\ Len(ai.intervals) = 2
    /\ ai.intervals[2] = <<10, 12>>
    /\ Contains(ret.arg, " ")

\* C4: ArrayIntervall(d) succeeds for every bool array d, the empty one
\* included, and ArrayIntervall(d)[0:len(d)] is d.
DenseRoundTrip ==
    (ret.op = "from_dense" /\ ret.arg.dtype = "bool")
        => /\ ret.err = NoErr
           /\ GetItem(ai, Slice(0, Len(ret.arg.data))).val = ret.arg.data

\* C5: m[r] = m[r] succeeds for every range r, an empty one included, and
\* leaves the indices m holds unchanged.
ClearRestore ==
    [][ret'.op = "set_got"
         => /\ ret'.err = NoErr
            /\ Covered(ai'.intervals) = Covered(ai.intervals)]_vars

\* C6: ai[r] = 1 a second time leaves the normalized intervals and the text of
\* the mask as the first left them.
IdempotentSetTrue ==
    [][ret'.op = "set_again"
         => /\ ret'.err = NoErr
            /\ Normalize(ai'.intervals) = Normalize(ai.intervals)
            /\ IntervalsAsStr(ai').val = IntervalsAsStr(ai).val]_vars

\* the same non-empty range was set twice on a mask that held an interval
IdempotentSetTrueWitness ==
    /\ ret.op = "set_again" /\ ret.err = NoErr
    /\ ret.range[1] < ret.range[2]
    /\ Len(ai.intervals) = 3
    /\ ai.intervals[2] = ret.range /\ ai.intervals[3] = ret.range
    /\ ai.intervals[1] # ret.range

-----------------------------------------------------------------------------
(* Claims checked under SpecTwin *)

\* C2: reads put anywhere between the mutating calls change no later result:
\* every get and the text of ai, which was read, are those of twin, which got
\* the same mutating calls and was never read.
ReadsTransparent ==
    /\ \A item \in Items(ai.shape) :
         /\ GetItem(ai, item).val = GetItem(twin, item).val
         /\ GetItem(ai, item).err = GetItem(twin, item).err
    /\ IntervalsAsStr(ai).val = IntervalsAsStr(twin).val

\* ai was normalized by a read between two mutations and twin was not: twin
\* holds two raw pairs, ai the merged pair cut by the later mutation
ReadsTransparentWitness ==
    /\ ~ai.normalized
    /\ ~twin.normalized
    /\ Len(twin.intervals) = 2
    /\ Len(ai.intervals) = 1
    /\ \A k \in 1..2 : twin.intervals[k][1] < twin.intervals[k][2]

-----------------------------------------------------------------------------
(* Claims checked under SpecOr *)

\* the values of mask at the indices 0..MaxLen, read by mask[0:MaxLen + 1]
Values01(mask) == GetItem(mask, Slice(0, MaxLen + 1)).val

\* C7: union is commutative and associative up to the normalized interval
\* sets: normalize(a|b) = normalize(b|a) and
\* normalize((a|b)|c) = normalize(a|(b|c)), whatever the operands' flags.
UnionLaws ==
    res.kind = "returned" =>
        /\ Normalize(res.ab.intervals) = Normalize(res.ba.intervals)
        /\ Normalize(res.abc.intervals) = Normalize(res.a_bc.intervals)

\* three non-empty operands, a normalized and b not, a|b and b|a with
\* different raw lists
UnionLawsWitness ==
    /\ res.kind = "returned"
    /\ \A i \in 1..3 : m[i].intervals # <<>>
    /\ m[1].normalized /\ ~m[2].normalized
    /\ res.ab.intervals # res.ba.intervals
    /\ Len(Normalize(res.abc.intervals)) < 3

\* C8: a | b returns a mask of the operands' shape whose raw list is a's raw
\* list followed by b's, flagged unnormalized, whose value at every index is
\* the OR of the operands' values, and the unions leave the operands' lists
\* and flags as they were.
UnionResult ==
    [][res'.kind = "returned" =>
        /\ res'.ab.shape = m[1].shape
        /\ res'.ab.intervals = m[1].intervals \o m[2].intervals
        /\ ~res'.ab.normalized
        /\ \A k \in 1..(MaxLen + 1) :
             Values01(res'.ab)[k] <=> (Values01(m[1])[k] \/ Values01(m[2])[k])
        /\ m' = m]_vars

\* a holds two raw pairs that overlap and is not normalized, b is normalized
\* and not empty
UnionResultWitness ==
    /\ res.kind = "returned"
    /\ Len(m[1].intervals) = 2
    /\ ~m[1].normalized
    /\ Len(Normalize(m[1].intervals)) = 1
    /\ m[2].normalized
    /\ m[2].intervals # <<>>
    /\ Len(res.ab.intervals) = 3

\* C9: a | b of masks whose shapes differ, one of them None included, raises,
\* returns no mask and leaves both operands as they were; None | None is
\* accepted.
UnionShapeMismatch ==
    [][res' # NoUnion /\ res = NoUnion =>
        /\ m[1].shape # m[2].shape =>
             /\ res'.kind = "raised"
             /\ res'.err = "AssertionError"
             /\ res'.ab = <<>>
             /\ m' = m
        /\ (m[1].shape = None /\ m[2].shape = None) => res'.kind = "returned"]_vars

\* a of shape None holding a pair, b of known shape holding pairs not yet
\* normalized, and the union of them raised
UnionShapeMismatchWitness ==
    /\ res.kind = "raised"
    /\ m[1].shape = None
    /\ m[2].shape # None
    /\ m[1].intervals # <<>>
    /\ Len(m[2].intervals) = 2
    /\ ~m[2].normalized

-----------------------------------------------------------------------------
(* Claims on item resolution and the values of a set, checked under Spec *)

\* the slices with a stop given to a mask of unknown length
StopSlices == {Slice(q[1], q[2]) : q \in Ranges(None)}

\* the slices without a stop: [:] and [1:]
OpenSlices == {SliceItem(None, None, None), SliceItem(<<1>>, None, None)}

\* the values of a set over item: 0, 1 and the bool arrays of the range's
\* length, for a range that is not empty
GoodValues(item) ==
    {Scalar(0), Scalar(1)}
    \cup (IF item.stop[1] > item.start[1]
          THEN {Array("bool", d) : d \in BoolSeqs(item.stop[1] - item.start[1])}
          ELSE {})

Indices(shape) == -1..(Top(shape) + 1)

\* C12: get and set with an integer index i address the range [i, i + 1)
\* when 0 <= i, and i < shape[0] for a known shape: get returns the one value
\* at i, set to 1 adds i and set to 0 removes i and nothing else; when i < 0,
\* or i >= shape[0] for a known shape, both raise the index error and leave
\* the mask as it was.
ScalarIndex ==
    Alive =>
      \A i \in Indices(ai.shape) :
        LET g == GetItem(ai, IntItem(i))
            s1 == SetItem(ai, IntItem(i), Scalar(1))
            s0 == SetItem(ai, IntItem(i), Scalar(0))
        IN  IF 0 <= i /\ (ai.shape = None \/ i < ai.shape[1])
            THEN /\ g.err = NoErr
                 /\ g.val = <<i \in Covered(ai.intervals)>>
                 /\ s1.err = NoErr
                 /\ Covered(s1.self.intervals) = Covered(ai.intervals) \cup {i}
                 /\ s0.err = NoErr
                 /\ Covered(s0.self.intervals) = Covered(ai.intervals) \ {i}
            ELSE /\ g.err = "IndexOutOfRange" /\ g.self = ai
                 /\ s1.err = "IndexOutOfRange" /\ s1.self = ai
                 /\ s0.err = "IndexOutOfRange" /\ s0.self = ai

\* ai[MaxLen] returned True on a mask of shape None: the index was set by
\* ai[MaxLen] = 1, no slice of the model reaches it
ScalarIndexWitness ==
    /\ ret.op = "get"
    /\ ret.err = NoErr
    /\ ai.shape = None
    /\ ret.range = <<MaxLen, MaxLen + 1>>
    /\ ret.val = <<TRUE>>

\* the slices a:b with a step that is not 1
StepSlices(shape) ==
    {SliceItem(<<q[1]>>, <<q[2]>>, <<step>>) : q \in Ranges(shape), step \in {-1, 0, 2}}

\* C13: a get or a set over a slice with a step other than 1 raises the
\* unsupported-step error, and the tuple and the flag are as before: nothing
\* was normalized, nothing written.
StepUnsupported ==
    Alive =>
      \A item \in StepSlices(ai.shape) :
        /\ GetItem(ai, item).err = "UnsupportedStep"
        /\ GetItem(ai, item).self = ai
        /\ \A value \in {Scalar(0), Scalar(1), Scalar(2), Array("bool", <<TRUE>>)} :
             /\ SetItem(ai, item, value).err = "UnsupportedStep"
             /\ SetItem(ai, item, value).self = ai

\* ai[0:top:2] raised on a mask that holds two raw pairs, not normalized
StepUnsupportedWitness ==
    /\ ret.op = "get"
    /\ ret.err = "UnsupportedStep"
    /\ Len(ai.intervals) = 2
    /\ ~ai.normalized
    /\ Len(Normalize(ai.intervals)) = 1

\* scalars that are neither 0 nor 1
OtherScalars == {-1, 2, 3}

\* C14: ai[item] = v for a scalar v that is neither 1 nor 0 raises
\* ValueError(v) when the item resolves, the error of the item when it does
\* not, and in both cases the tuple and the flag are as before.
ScalarValueError ==
    Alive =>
      \A item \in Items(ai.shape), v \in OtherScalars :
        LET r == ParseItem(item, ai.shape)
            s == SetItem(ai, item, Scalar(v))
        IN  /\ r.err = NoErr => s.err = "ValueError" /\ s.val = <<v>>
            /\ r.err # NoErr => s.err = r.err
            /\ s.self = ai

\* ai[0:top] = 2 raised ValueError on a mask that holds two raw pairs
ScalarValueErrorWitness ==
    /\ ret.op = "set"
    /\ ret.err = "ValueError"
    /\ ret.arg = <<"scalar", 2>>
    /\ Len(ai.intervals) = 2
    /\ ~ai.normalized

-----------------------------------------------------------------------------
(* Claims on the flag and the stored tuple, checked under Spec *)

\* end_i < start_{i+1} for all adjacent pairs: sorted, disjoint, not adjacent
Separated(intervals) ==
    \A k \in 1..(Len(intervals) - 1) : intervals[k][2] < intervals[k + 1][1]

\* C15, as stated: the flag is true if and only if the stored tuple is sorted
\* ascending, pairwise disjoint and non-adjacent.
FlagIffSeparated ==
    Alive => (ai.normalized <=> Separated(ai.intervals))

\* C15, amended: if the flag is true, the stored tuple is sorted ascending,
\* pairwise disjoint and non-adjacent, with start < end in every pair.
FlagImpliesSeparated ==
    ai.normalized =>
        /\ Separated(ai.intervals)
        /\ \A k \in 1..Len(ai.intervals) : ai.intervals[k][1] < ai.intervals[k][2]

\* a read has left the flag true on a mask of two pairs, merged from three
FlagImpliesSeparatedWitness ==
    /\ ai.normalized
    /\ Len(ai.intervals) = 2
    /\ ret.op \in {"get", "to_text", "repr"}
    /\ Cardinality(Covered(ai.intervals)) > 2

\* C16: for every mask of known shape, every pair of the normalized tuple
\* satisfies 0 <= start < end <= shape[0].
IntervalsInDomain ==
    (Alive /\ ai.shape # None) =>
        \A k \in 1..Len(Normalize(ai.intervals)) :
            LET p == Normalize(ai.intervals)[k]
            IN  0 <= p[1] /\ p[1] < p[2] /\ p[2] <= ai.shape[1]

\* the values of a mask of known shape at every index: mask[0:shape[0]]
AllValues(mask) == GetItem(mask, Slice(0, mask.shape[1])).val

\* the runs of True of a dense array, as ArrayIntervall(array) finds them
RunsOf(data) ==
    IF data = <<>> THEN <<>>
    ELSE Normalize(FromDense(Array("bool", data)).self.intervals)

\* C17: the normalized tuple and the text of a mask of known shape are
\* determined by the values it reports at the indices 0..shape[0]-1 (they are
\* the runs of those values), so that two masks of the same shape reporting
\* the same values have the same normalized tuple and the same text.
CanonicalUnique ==
    (Alive /\ ai.shape # None) =>
        /\ Normalize(ai.intervals) = RunsOf(AllValues(ai))
        /\ IntervalsAsStr(ai).val = FormatIntervals(RunsOf(AllValues(ai)))

\* C18: the text is the start:end tokens joined by a comma and a blank, no
\* comma at its end, start < end in every token, the tokens ascending with
\* end_i < start_{i+1}; it is the empty string exactly when the mask is False
\* at every index.
TextCanonical ==
    Alive =>
      LET text == IntervalsAsStr(ai).val
          toks == StrToIntervals(text)
          allFalse == IF ai.shape = None THEN Covered(ai.intervals) = {}
                      ELSE \A k \in 1..Len(AllValues(ai)) : ~AllValues(ai)[k]
      IN  /\ toks.err = NoErr
          /\ text = FormatIntervals(toks.intervals)
          /\ text # <<>> => text[Len(text)] # ","
          /\ Separated(toks.intervals)
          /\ \A k \in 1..Len(toks.intervals) : toks.intervals[k][1] < toks.intervals[k][2]
          /\ (text = <<>>) <=> allFalse

\* the calls that assign self.intervals, and from_text, which binds ai to a
\* new mask
Mutating ==
    {"set", "set_got", "set_again", "add_intervals", "add_intervals_from_str",
     "from_text"}

\* C20, as stated: after repr, to_text, get or len returns, the flag is true
\* and the stored tuple is the normalized form.
ReadsAndLenNormalize ==
    [][(ret'.op \in {"repr", "to_text", "get", "len"} /\ ret'.err = NoErr) =>
        /\ ai'.normalized
        /\ ai'.intervals = Normalize(ai.intervals)]_vars

\* C20, amended: after repr, to_text or get returns, the flag is true and the
\* stored tuple is the normalized form; len leaves tuple and flag as they
\* were; a true flag turns false only in a mutating call.
ReadsNormalize ==
    [][/\ (ret'.op \in {"repr", "to_text", "get"} /\ ret'.err = NoErr) =>
            /\ ai'.normalized
            /\ ai'.intervals = Normalize(ai.intervals)
       /\ ret'.op = "len" => ai' = ai
       /\ (Alive /\ ai.normalized /\ ~ai'.normalized) => ret'.op \in Mutating]_vars

\* len() returned on a mask of two raw pairs that would merge, and the flag
\* is still false
ReadsNormalizeWitness ==
    /\ ret.op = "len"
    /\ ret.err = NoErr
    /\ ~ai.normalized
    /\ Len(ai.intervals) = 2
    /\ Len(Normalize(ai.intervals)) = 1

-----------------------------------------------------------------------------
(* Claims on get, set and the constructor from a dense array, under Spec *)

\* C24: a get over the resolved range (start, end) returns end - start
\* booleans, the k-th of them True iff start + k lies in some stored pair,
\* and the indices the stored pairs hold are the same after it as before.
GetMembership ==
    [][(ret'.op = "get" /\ ret'.err = NoErr) =>
        /\ Len(ret'.val) = ret'.range[2] - ret'.range[1]
        /\ \A k \in 0..(Len(ret'.val) - 1) :
             ret'.val[k + 1] <=> (ret'.range[1] + k \in Covered(ai.intervals))
        /\ Covered(ai'.intervals) = Covered(ai.intervals)]_vars

\* a get of a range that starts inside a stored pair and ends past it: the
\* pair is clipped, the array starts with True and ends with False
GetMembershipWitness ==
    /\ ret.op = "get"
    /\ ret.err = NoErr
    /\ Len(ret.val) >= 2
    /\ ret.val[1] /\ ~ret.val[Len(ret.val)]
    /\ \E k \in 1..Len(ai.intervals) :
         /\ ai.intervals[k][1] < ret.range[1]
         /\ ai.intervals[k][2] < ret.range[2]
         /\ ret.range[1] < ai.intervals[k][2]

\* C27: for every mask reached, normalized or raw, every item that resolves
\* to a range and every value 0, 1 or bool array, a successful ai[item] =
\* value leaves every index outside the range as it was; with the value 0 no
\* index of the range is held afterwards.
SetFrame ==
    Alive =>
      \A item \in Items(ai.shape) :
        LET q == RangeOf(item, ai.shape)
        IN  q # <<>> =>
              \A value \in Values(item, ai.shape, q[2] - q[1]) :
                LET c == SetItem(ai, item, value)
                    inside == RangeSet(q[1], q[2])
                IN  c.err = NoErr =>
                      /\ Covered(c.self.intervals) \ inside
                            = Covered(ai.intervals) \ inside
                      /\ value = Scalar(0) =>
                            Covered(c.self.intervals) \cap inside = {}

\* an assignment of 0 has left a pair on each side of a gap, from index 0
\* to index MaxLen, as the dense array has it
SetFrameWitness ==
    /\ ret.op = "set" /\ ret.arg = ValueTag(Scalar(0)) /\ ret.err = NoErr
    /\ Len(ai.intervals) = 2
    /\ ai.intervals[1][2] < ai.intervals[2][1]
    /\ ai.intervals[1][1] = 0 /\ ai.intervals[2][2] = MaxLen
    /\ dense = Covered(ai.intervals)

\* C29: ai[start:stop] = 1 appends the one pair (start, stop) to the end of
\* the stored tuple, keeps the pairs stored before it and their order,
\* neither sorts nor merges, and leaves the flag False.
SetTrueAppends ==
    [][(/\ ret'.op \in {"set", "set_again"}
        /\ ret'.arg = ValueTag(Scalar(1))
        /\ ret'.err = NoErr) =>
            /\ ai'.intervals = Append(ai.intervals, ret'.range)
            /\ ~ai'.normalized
            /\ ai'.shape = ai.shape]_vars

\* the pair appended starts before the pair stored ahead of it and overlaps
\* it: the tuple is neither sorted nor merged
SetTrueAppendsWitness ==
    /\ ret.op = "set" /\ ret.arg = ValueTag(Scalar(1)) /\ ret.err = NoErr
    /\ Len(ai.intervals) = 2
    /\ ai.intervals[2] = ret.range
    /\ ai.intervals[2][1] < ai.intervals[1][1]
    /\ ai.intervals[1][1] < ai.intervals[2][2]
    /\ ~ai.normalized

\* the maximal runs of True of data: the pairs (a, b) with True at every
\* index a..b-1, no True at index a-1 and none at index b
MaximalRuns(data) ==
    {p \in (0..Len(data)) \X (0..Len(data)) :
        /\ p[1] < p[2]
        /\ \A k \in (p[1] + 1)..p[2] : data[k]
        /\ p[1] = 0 \/ ~data[p[1]]
        /\ p[2] = Len(data) \/ ~data[p[2] + 1]}

\* C30: ArrayIntervall(d) gives, for every bool array d, a mask of shape
\* (len(d),) whose normalized intervals are the maximal runs of True of d,
\* one pair per run, a run from index 0 and a run up to len(d) included.
DenseRuns ==
    (ret.op = "from_dense" /\ ret.arg.dtype = "bool") =>
        LET n == Normalize(ai.intervals)
        IN  /\ ret.err = NoErr
            /\ ai.shape = <<Len(ret.arg.data)>>
            /\ {n[k] : k \in 1..Len(n)} = MaximalRuns(ret.arg.data)
            /\ Len(n) = Cardinality(MaximalRuns(ret.arg.data))

\* self[item] = 1 for each item of the list, one call after the other
RECURSIVE SetEachItem(_, _)
SetEachItem(mask, items) ==
    IF items = <<>> THEN mask
    ELSE SetEachItem(SetItem(mask, Head(items), Scalar(1)).self, Tail(items))

\* C31: when every item of the list resolves, ai.add_intervals(items) and
\* ai[item] = 1 for each item in order leave the same stored tuple, and so
\* the same indices held.
AddIntervalsAsSets ==
    Alive =>
      \A items \in AddItemLists(ai.shape) \cup {<<>>} :
        (\A k \in 1..Len(items) : ParseItem(items[k], ai.shape).err = NoErr) =>
            LET added == AddIntervals(ai, items)
                each == SetEachItem(ai, items)
            IN  /\ added.err = NoErr
                /\ added.self.intervals = each.intervals
                /\ added.self.shape = each.shape
                /\ Covered(added.self.intervals) = Covered(each.intervals)

\* add_intervals has appended two different pairs to an empty mask
AddIntervalsAsSetsWitness ==
    /\ ret.op = "add_intervals" /\ ret.err = NoErr
    /\ Len(ai.intervals) = 2
    /\ ai.intervals[1][1] < ai.intervals[1][2]
    /\ ai.intervals[2] = <<0, 1>>
    /\ ai.intervals[1] # ai.intervals[2]
    /\ ai = SetEachItem(Zeros(ai.shape),
                        <<Slice(ai.intervals[1][1], ai.intervals[1][2]), Slice(0, 1)>>)

\* the empty ranges a:a of a mask of this shape
EmptySlices(shape) == {Slice(a, a) : a \in 0..Top(shape)}

\* C32: ai[a:a] = 1 succeeds and stores the pair (a, a); the indices held
\* and the text are as before, and so is what every later ai[item] returns
\* and what every later ai[item] = 0 leaves.
EmptyRangeHarmless ==
    /\ [](Alive =>
            \A e \in EmptySlices(ai.shape) :
                \E c \in {SetItem(ai, e, Scalar(1))} :
                    /\ c.err = NoErr
                    /\ c.self.intervals = Append(ai.intervals, <<e.start[1], e.start[1]>>))
    /\ [][(/\ ret'.op = "set"
           /\ ret'.arg = ValueTag(Scalar(1))
           /\ ret'.err = NoErr
           /\ ret'.range[1] = ret'.range[2]) =>
              /\ Covered(ai'.intervals) = Covered(ai.intervals)
              /\ IntervalsAsStr(ai').val = IntervalsAsStr(ai).val
              /\ \A item \in Items(ai.shape) :
                   /\ GetItem(ai', item).val = GetItem(ai, item).val
                   /\ GetItem(ai', item).err = GetItem(ai, item).err
                   /\ Normalize(SetItem(ai', item, Scalar(0)).self.intervals)
                        = Normalize(SetItem(ai, item, Scalar(0)).self.intervals)]_vars

\* ai[a:a] = 1 has stored the pair (a, a) behind a pair that holds indices
EmptyRangeHarmlessWitness ==
    /\ ret.op = "set" /\ ret.arg = ValueTag(Scalar(1)) /\ ret.err = NoErr
    /\ ret.range # <<>> /\ ret.range[1] = ret.range[2]
    /\ Len(ai.intervals) = 2
    /\ ai.intervals[2] = ret.range
    /\ ai.intervals[1][1] < ai.intervals[1][2]
    /\ ai.intervals[2][1] < ai.intervals[1][1]

\* the calls that hand a new tuple to the intervals setter
SetterCalls ==
    {"set", "set_got", "set_again", "add_intervals", "add_intervals_from_str"}

\* C36: in every state reached by the calls of one thread, a true flag comes
\* with a stored tuple that is sorted ascending by start, has start < end in
\* every pair and end_i < start_{i+1} for neighbours; and every call that
\* replaces the tuple (an assignment, add_intervals, add_intervals_from_str,
\* and the union for its result) leaves the flag False.
CacheSound ==
    /\ [](ai.normalized =>
            /\ \A k \in 1..Len(ai.intervals) : ai.intervals[k][1] < ai.intervals[k][2]
            /\ \A k \in 1..(Len(ai.intervals) - 1) :
                 /\ ai.intervals[k][1] < ai.intervals[k + 1][1]
                 /\ ai.intervals[k][2] < ai.intervals[k + 1][1])
    /\ [][/\ (ret'.op \in SetterCalls /\ ret'.err = NoErr) => ~ai'.normalized
          /\ (ret'.op = "or" /\ ret'.err = NoErr) => ~ret'.val.normalized]_vars

\* the text was read from a mask of two pairs, from index 0 to index MaxLen
\* with a gap, and the flag is True
CacheSoundWitness ==
    /\ ret.op = "to_text" /\ ret.err = NoErr
    /\ ai.normalized
    /\ Len(ai.intervals) = 2
    /\ ai.intervals[1][1] = 0 /\ ai.intervals[2][2] = MaxLen
    /\ dense = Covered(ai.intervals)

-----------------------------------------------------------------------------
(* Claims checked under SpecNormalize *)

\* C19: _normalize of any list of integer pairs returns a tuple sorted
\* ascending by start, without a pair with start >= end, with
\* end_i < start_{i+1} for consecutive pairs, that covers exactly the indices
\* the non-degenerate pairs of the list cover.
NormalizeCorrect ==
    ret.op = "normalize" =>
        /\ \A k \in 1..(Len(ret.val) - 1) : ret.val[k][1] < ret.val[k + 1][1]
        /\ \A k \in 1..Len(ret.val) : ret.val[k][1] < ret.val[k][2]
        /\ Separated(ret.val)
        /\ Covered(ret.val) = Covered(ret.arg)

\* three pairs given out of order, none degenerate, the first holding the
\* second and reaching past it, merged into one
NormalizeCorrectWitness ==
    /\ ret.op = "normalize"
    /\ Len(ret.arg) = 3
    /\ \A k \in 1..3 : ret.arg[k][1] < ret.arg[k][2]
    /\ ret.arg[3][1] < ret.arg[1][1]
    /\ ret.arg[1][1] < ret.arg[2][1] /\ ret.arg[2][2] < ret.arg[1][2]
    /\ Len(ret.val) = 1

\* the lists holding the pairs of l, each as often as l holds it, in any order
Permuted(l) ==
    {[k \in 1..Len(l) |-> l[p[k]]] :
        p \in {f \in [1..Len(l) -> 1..Len(l)] :
                 \A i, j \in 1..Len(l) : f[i] = f[j] => i = j}}

\* C33: _normalize of the tuple _normalize returned is that tuple, and
\* _normalize of the pairs in any other order is that tuple too, also when a
\* pair is given more than once.
NormalizeCanonical ==
    ret.op = "normalize" =>
        /\ Normalize(ret.val) = ret.val
        /\ \A l \in Permuted(ret.arg) : Normalize(l) = ret.val

\* three pairs, one of them twice, the later pair first, two pairs returned
NormalizeCanonicalWitness ==
    /\ ret.op = "normalize"
    /\ Len(ret.arg) = 3
    /\ ret.arg[1] = ret.arg[3]
    /\ ret.arg[2][2] < ret.arg[1][1]
    /\ ret.arg[2][1] < ret.arg[2][2]
    /\ Len(ret.val) = 2

-----------------------------------------------------------------------------
(* Claims checked under SpecText *)

\* C21: for a well-formed list s of tokens without a comma at its end, a
\* single token included, from_str(s + ',', L) and from_str(s, L) return masks
\* with the same normalized intervals; from_str('', L) returns a mask of the
\* shape of L without an interval, and every get of it returns False only.
FromTextTolerant ==
    /\ (ret.op = "from_str" /\ ret.arg = <<>>) =>
          /\ ret.err = NoErr
          /\ ai.intervals = <<>>
          /\ \A item \in Items(ai.shape) :
               \A k \in 1..Len(GetItem(ai, item).val) : ~GetItem(ai, item).val[k]
    /\ (ret.op = "get" /\ ret.arg = <<>> /\ ret.err = NoErr) =>
          \A k \in 1..Len(ret.val) : ~ret.val[k]
    /\ (/\ ret.op = "from_str"
        /\ ret.arg # <<>>
        /\ StrToIntervals(ret.arg).err = NoErr
        /\ ret.arg[Len(ret.arg)] # ",") =>
          LET c == FromStr(ret.arg \o <<",">>, ai.shape)
          IN  /\ ret.err = NoErr
              /\ c.err = NoErr
              /\ c.self.shape = ai.shape
              /\ Normalize(c.self.intervals) = Normalize(ai.intervals)

\* the text was one token, no comma in it, and the mask holds its pair
FromTextTolerantWitness ==
    /\ ret.op = "from_str"
    /\ ret.err = NoErr
    /\ ~Contains(ret.arg, ",")
    /\ ai.intervals = <<(<<5, 12>>)>>
    /\ ai.shape # None

\* C22: the tokens of the text may come in any order, overlapping or
\* adjacent; the text of the mask built from them is the canonical list:
\* tokens ascending, start < end, end_i < start_{i+1}, covering exactly the
\* indices the tokens given cover.
FromTextCanonical ==
    (ret.op = "to_text" /\ ret.arg # <<>>) =>
        LET given == StrToIntervals(ret.arg).intervals
            out == StrToIntervals(ret.val)
        IN  /\ out.err = NoErr
            /\ ret.val = FormatIntervals(out.intervals)
            /\ Separated(out.intervals)
            /\ \A k \in 1..Len(out.intervals) : out.intervals[k][1] < out.intervals[k][2]
            /\ Covered(out.intervals) = Covered(given)

\* three tokens, the first after the others, merged into the one token 0:12
FromTextCanonicalWitness ==
    /\ ret.op = "to_text"
    /\ Len(StrToIntervals(ret.arg).intervals) = 3
    /\ StrToIntervals(ret.arg).intervals[1] = <<5, 12>>
    /\ StrToIntervals(ret.arg).intervals[2] = <<0, 1>>
    /\ StrToIntervals(ret.arg).intervals[3] = <<1, 5>>
    /\ ret.val = <<"0", ":", "1", "2">>

-----------------------------------------------------------------------------
(* Claims checked under SpecReaders *)

\* what the call returns or raises when it runs alone on the mask
ReaderAlone(mask, call) ==
    LET c == IF call.op = "get" THEN GetItem(mask, call.item)
             ELSE IF call.op = "to_text" THEN IntervalsAsStr(mask)
             ELSE Repr(mask)
    IN  [val |-> c.val, err |-> c.err]

\* C25: when the threads start on a mask whose flag is True, no interleaving
\* of their get, text and repr calls writes to the mask, and every call
\* returns what it returns when it runs alone.
ReadersShareSafely ==
    twin.normalized =>
        /\ res = 0
        /\ ai = twin
        /\ \A t \in 1..Readers :
             m[t].pc = "done" =>
                 [val |-> m[t].val, err |-> m[t].err] = ReaderAlone(twin, m[t].call)

\* one thread has returned an array holding a True while the other is
\* between the read of the flag and the read of the tuple
ReadersShareSafelyWitness ==
    /\ twin.normalized
    /\ Len(twin.intervals) = 2
    /\ m[1].pc = "done" /\ m[1].call.op = "get" /\ m[1].err = NoErr
    /\ \E k \in 1..Len(m[1].val) : m[1].val[k]
    /\ m[2].pc = "return" /\ m[2].call.op = "repr"

-----------------------------------------------------------------------------
(* Claims checked under SpecWriters *)

\* mask[q] = 1 for each range q of the sequence, one call after the other
RECURSIVE SetEach(_, _)
SetEach(mask, ranges) ==
    IF ranges = <<>> THEN mask
    ELSE SetEach(SetItem(mask, Slice(ranges[1][1], ranges[1][2]), Scalar(1)).self,
                 Tail(ranges))

\* the threads in some order, each at most once: k of them
WriterOrders(k) ==
    {o \in [1..k -> 1..Writers] : \A i, j \in 1..k : o[i] = o[j] => i = j}

WritersDone == \A t \in 1..Writers : m[t].pc = "done"

\* C26: when every call runs under one mutex, the mask the threads leave is
\* the one some sequential order of their calls leaves; without the mutex it
\* is the mask some order of some of the calls leaves, so that it may lack
\* the range of a call that returned.
WritersNeedMutex ==
    WritersDone =>
        /\ res.mutex =>
             \E o \in WriterOrders(Writers) :
                 ai = SetEach(twin, [i \in 1..Writers |-> m[o[i]].range])
        /\ ~res.mutex =>
             \E k \in 1..Writers : \E o \in WriterOrders(k) :
                 ai = SetEach(twin, [i \in 1..k |-> m[o[i]].range])

\* two calls without the mutex have returned, and no index of the range of
\* one of them is held by the mask
WritersLostUpdate ==
    /\ ~res.mutex
    /\ WritersDone
    /\ twin.intervals = <<>>
    /\ \E t \in 1..Writers :
         /\ m[t].range[1] < m[t].range[2]
         /\ RangeSet(m[t].range[1], m[t].range[2]) \cap Covered(ai.intervals) = {}

-----------------------------------------------------------------------------
(* Claims checked under SpecSubtract *)

\* what ai[qs:qe] = value leaves of a mask holding the one pair
ClearedOf(pair, q, value) ==
    SetItem(SetIntervals(Zeros(None), <<pair>>), Slice(q[1], q[2]), value).self.intervals

RECURSIVE ClearedEach(_, _, _)
ClearedEach(intervals, q, value) ==
    IF intervals = <<>> THEN <<>>
    ELSE ClearedOf(Head(intervals), q, value)
            \o ClearedEach(Tail(intervals), q, value)

\* C28: clearing the range [qs, qe) of any tuple of pairs leaves, for each
\* pair in turn, at most two pairs (its part before qs and its part after
\* qe); a pair lying before or after the range is left as it is, and no pair
\* left holds an index of the range.
SubtractPieces ==
    (ret.op = "cleared" /\ ret.err = NoErr) =>
        LET q == ret.range
            value == IF ret.arg = ValueTag(Scalar(0)) THEN Scalar(0)
                     ELSE Array("bool", [k \in 1..(q[2] - q[1]) |-> FALSE])
        IN  /\ ai.intervals = ClearedEach(twin.intervals, q, value)
            /\ \A k \in 1..Len(twin.intervals) :
                 LET pair == twin.intervals[k]
                     left == ClearedOf(pair, q, value)
                 IN  /\ Len(left) <= 2
                     /\ (pair[2] <= q[1] \/ q[2] <= pair[1]) => left = <<pair>>
                     /\ Covered(left) = RangeSet(pair[1], pair[2]) \ RangeSet(q[1], q[2])
                     /\ \A j \in 1..Len(left) :
                          /\ left[j][1] < left[j][2]
                          /\ left[j][2] <= q[1] \/ q[2] <= left[j][1]
            /\ Covered(ai.intervals) \cap RangeSet(q[1], q[2]) = {}

\* the range cleared lies strictly inside one pair and off another: the
\* first is cut in two, the second is kept, three pairs are left
SubtractPiecesWitness ==
    /\ ret.op = "cleared" /\ ret.err = NoErr
    /\ Len(twin.intervals) = 2 /\ Len(ai.intervals) = 3
    /\ ret.range[1] < ret.range[2]
    /\ \E k \in 1..2 : twin.intervals[k] \in {ai.intervals[1], ai.intervals[3]}

-----------------------------------------------------------------------------
(* Claims checked under SpecPickle *)

\* C34: for every mask, of known or unknown shape, __reduce__ returns the
\* text of the mask and its domain length and leaves the indices held as
\* they were, and from_str of the two rebuilds a mask with the same
\* normalized intervals and the same shape.
PickleRoundTrip ==
    /\ ret.op = "reduce" =>
         /\ ret.err = NoErr
         /\ ret.val[1] = IntervalsAsStr(twin).val
         /\ <<ret.val[2]>> = twin.shape
         /\ Covered(ai.intervals) = Covered(twin.intervals)
    /\ ret.op = "loads" =>
         /\ ret.err = NoErr
         /\ Normalize(m[1].intervals) = Normalize(twin.intervals)
         /\ m[1].shape = twin.shape

-----------------------------------------------------------------------------
(* Claims checked under SpecRttm *)

\* the sample ranges of the lines with the key, as a set of indices
SegmentSamples(lines, key, sample_rate) ==
    UNION {RangeSet(Sample(lines[k].begin, sample_rate),
                    Sample(lines[k].begin + lines[k].duration, sample_rate)) :
           k \in {j \in 1..Len(lines) :
                    <<lines[j].file, lines[j].name>> = key}}

\* a line the asserts of the loop reject
RttmRejected(line, sample_rate) ==
    \/ line.type # "SPEAKER"
    \/ ~IsSample(line.begin, sample_rate)
    \/ ~IsSample(line.begin + line.duration, sample_rate)

\* the loop over all the lines
RECURSIVE LoadAll(_, _, _, _)
LoadAll(data, lines, shape, sample_rate) ==
    IF lines = <<>> THEN data
    ELSE LoadAll(LoadLine(data, Head(lines), shape, sample_rate).data,
                 Tail(lines), shape, sample_rate)

\* C35: when no line is rejected, the loader returns for every file id and
\* speaker name of the lines, and for no other, a mask holding exactly the
\* union of the sample ranges of the lines of that key, in whatever order the
\* lines are given; a line whose type is not SPEAKER or whose begin or end is
\* no whole sample makes the call raise AssertionError.
RttmUnion ==
    ret.op = "rttm" =>
        LET lines == m.lines
            keys == {<<lines[k].file, lines[k].name>> : k \in 1..Len(lines)}
        IN  IF \E k \in 1..Len(lines) : RttmRejected(lines[k], m.sample_rate)
            THEN ret.err = "AssertionError"
            ELSE /\ ret.err = NoErr
                 /\ DOMAIN ret.val = {k[1] : k \in keys}
                 /\ \A file \in DOMAIN ret.val :
                      DOMAIN ret.val[file] = {k[2] : k \in {j \in keys : j[1] = file}}
                 /\ \A key \in keys :
                      Covered(ret.val[key[1]][key[2]].intervals)
                          = SegmentSamples(lines, key, m.sample_rate)
                 /\ \A p \in Permuted(lines) :
                      LET d == LoadAll(NoData, p, m.shape, m.sample_rate)
                      IN  /\ DOMAIN d = keys
                          /\ \A key \in keys :
                               Normalize(d[key].intervals)
                                   = Normalize(ret.val[key[1]][key[2]].intervals)

\* two speakers of one file were returned, one of them with two segments,
\* the later segment on the earlier line
RttmUnionWitness ==
    /\ ret.op = "rttm" /\ ret.err = NoErr
    /\ Len(m.lines) = 3
    /\ \E file \in DOMAIN ret.val :
         /\ Cardinality(DOMAIN ret.val[file]) = 2
         /\ \E name \in DOMAIN ret.val[file] :
              /\ Len(ret.val[file][name].intervals) = 2
              /\ ret.val[file][name].intervals[2][2]
                    <= ret.val[file][name].intervals[1][1]

-----------------------------------------------------------------------------
(* Claims checked under SpecIsolation *)

\* C37: a call on one mask (an assignment, add_intervals, a read that
\* normalizes) changes the tuple, the flag and the shape of no other mask,
\* the masks of zeros() that hold no attribute of their own and the operands
\* and the result of an earlier union included; a union changes no mask that
\* exists; the class attributes stay as they are.
InstanceIsolation ==
    [][/\ m'.cls = m.cls
       /\ \A j \in 1..Len(m.inst) :
            <<j>> # ret'.arg =>
                /\ View(m', j) = View(m, j)
                /\ m'.inst[j] = m.inst[j]]_vars

\* mask 1 was assigned to after the union of masks 1 and 2 was taken: mask 2
\* still holds nothing of its own, the union holds what mask 1 held then
InstanceIsolationWitness ==
    /\ ret.op = "set" /\ ret.arg = <<1>> /\ ret.err = NoErr
    /\ Len(m.inst) = 3
    /\ m.inst[2].own = {}
    /\ m.inst[3].own # {}
    /\ Len(m.inst[3].intervals) = 1
    /\ Len(m.inst[1].intervals) = 2
    /\ m.inst[1].intervals[1] = m.inst[3].intervals[1]

-----------------------------------------------------------------------------
(* Claims checked under SpecRace *)

RaceDone == \A t \in RaceThreads : m[t].pc = "done"

\* C38: a read through normalized_intervals and an assignment of 1 that run
\* on one mask without a mutex can leave the flag True on a tuple that is
\* not normalized, or leave the mask without the pair assigned: the tuple
\* they leave is the old tuple or its normalized form with the pair, the
\* normalized form of both, or the normalized old tuple alone.  When each
\* call runs under one mutex, a true flag outside a call comes with a
\* normalized tuple and the pair assigned is held.
ReadWriteRace ==
    LET old == twin.intervals
        pair == <<m["w"].range>>
    IN  /\ (~res.mutex /\ RaceDone) =>
              ai.intervals \in {old \o pair, Normalize(old) \o pair,
                                Normalize(old \o pair), Normalize(old)}
        /\ res.mutex =>
              /\ (res.holder = "none" /\ ai.normalized) =>
                    Normalize(ai.intervals) = ai.intervals
              /\ m["w"].pc = "done" =>
                    (m["w"].range \in {ai.intervals[k] : k \in 1..Len(ai.intervals)}
                     \/ RangeSet(m["w"].range[1], m["w"].range[2])
                            \subseteq Covered(ai.intervals))

\* both calls have returned without a mutex: the flag is True and the tuple
\* stored holds the pair assigned, unsorted or unmerged
ReadWriteRaceWitness ==
    /\ ~res.mutex
    /\ RaceDone
    /\ ai.normalized
    /\ Normalize(ai.intervals) # ai.intervals
    /\ ai.intervals[Len(ai.intervals)] = m["w"].range

-----------------------------------------------------------------------------
(* Claims checked under SpecMergeFair *)

\* the working list as the iteration sees it: (s, e) stands for intervals[i]
MergeView ==
    IF m.pc \in {"next", "while", "body", "finally"}
    THEN [m.intervals EXCEPT ![m.i] = m.cur]
    ELSE m.intervals

\* C39: _normalize returns for every list: every run of the body of the
\* while loop makes the working list one element shorter, the for loop never
\* starts more iterations than the list had elements at first, and reading
\* past the end of the shortened list, at i or at i+1, leaves the loop with
\* every sample of the input still covered and no sample covered twice; what
\* is returned is the normalized tuple.
MergeTerminates ==
    /\ <>(m.pc = "done")
    /\ [](m.pc # "sort" =>
            /\ m.i <= m.n
            /\ Len(m.intervals) = m.n - res
            /\ Covered(MergeView) = Covered(ret.arg)
            /\ m.pc \in {"for", "return", "done"} =>
                 \A j \in 1..Len(m.intervals) : \A k \in 1..Len(m.intervals) :
                    (j < k /\ j <= m.i) =>
                        m.intervals[j][2] < m.intervals[k][1])
    /\ [](m.pc = "done" => ret.val = Normalize(ret.arg))
    /\ [][(m.pc = "body" => Len(m'.intervals) = Len(m.intervals) - 1)
          /\ (m'.pc = "return" =>
                 (m.i = m.n \/ m.i > Len(m.intervals)))]_vars

\* three pairs were merged into one: the while loop read past the end of the
\* list it had shortened twice, and the for loop was left by break
MergeTerminatesWitness ==
    /\ m.pc = "done"
    /\ res = 2
    /\ Len(ret.val) = 1
    /\ Len(ret.arg) = 3
    /\ m.i = 2
    /\ m.i > Len(m.intervals)

=============================================================================
